---- MODULE Spec2Model ----
(***************************************************************************)
(* A model of the pyqubo compilation pipeline: expression trees are        *)
(* expanded to polynomials over binary variables, the polynomial is        *)
(* reduced to degree two with auxiliary variables, and the compiled model  *)
(* is evaluated (to_bqm, energy, decode_sample).                           *)
(*                                                                         *)
(* The sources hold two implementations.  The one in src/include/*.h and   *)
(* src/src/*.cpp (Base::compile, Expanded, reduce_order, Model) is called  *)
(* the "base" pipeline below.  The one in src/src/*.hpp (compile of        *)
(* compiler2.hpp, the expand visitors of compiler.hpp and expand.hpp,      *)
(* convert_to_quadratic, model of model.hpp) is called the "hpp" pipeline. *)
(*                                                                         *)
(* Numbers are integers (the inputs are integer valued and the pipeline    *)
(* only adds and multiplies).  The iteration order of a std::unordered_map *)
(* is unspecified: where it changes which terms an operation reaches       *)
(* (replace_variable) every order is modelled; where it only changes the   *)
(* nesting of a coefficient tree a fixed order is used.                    *)
(***************************************************************************)
EXTENDS Integers, Sequences, FiniteSets, TLC

\* ------------------------------------------------------------------------
\* Bounds
\* ------------------------------------------------------------------------
\* number of binary variable labels the input expressions draw from
MaxVars == 4
\* largest number of monomials summed in a reducer input expression
MaxAddends == 1
\* cap on the number of iterations of the reducer loops
MaxIters == 4

\* ------------------------------------------------------------------------
\* Generic helpers
\* ------------------------------------------------------------------------
RECURSIVE SumOver(_, _)
SumOver(f, S) ==
    IF S = {} THEN 0
    ELSE LET k == CHOOSE k \in S : TRUE IN f[k] + SumOver(f, S \ {k})

RECURSIVE pow(_, _)
pow(b, e) == IF e <= 0 THEN 1 ELSE b * pow(b, e - 1)

Range(s) == {s[i] : i \in DOMAIN s}

\* ------------------------------------------------------------------------
\* Coefficients of the base pipeline (coeff.h, coeff.cpp)
\* ------------------------------------------------------------------------
CoeffNum(value) == [ct |-> "NUM", value |-> value]

CoeffPlaceholder(label) == [ct |-> "PLACEHOLDER", label |-> label]

CoeffAdd(left, right) == [ct |-> "ADD", left |-> left, right |-> right]

CoeffMul(left, right) == [ct |-> "MUL", left |-> left, right |-> right]

\* this->add(other): CoeffNum folds two numbers, every other node builds ADD
Coeff_add(this, other) ==
    IF this.ct = "NUM" /\ other.ct = "NUM"
    THEN CoeffNum(other.value + this.value)
    ELSE CoeffAdd(this, other)

\* this->mul(other): CoeffNum folds two numbers, every other node builds MUL
Coeff_mul(this, other) ==
    IF this.ct = "NUM" /\ other.ct = "NUM"
    THEN CoeffNum(other.value * this.value)
    ELSE CoeffMul(this, other)

\* this->mul(double num)
Coeff_mul_num(this, num) ==
    IF this.ct = "NUM" THEN CoeffNum(this.value * num)
    ELSE CoeffMul(this, CoeffNum(num))

\* ------------------------------------------------------------------------
\* Placeholder polynomials (coeffprod.h, placeholderpoly.h/.cpp)
\* A CoeffProd is the map label -> exponent; a PHPoly maps CoeffProd -> number
\* ------------------------------------------------------------------------
CoeffProd_empty == [l \in {} |-> 0]

CoeffProd_of(label, order) == label :> order

\* the labels of both products with the larger of the two orders, instead of
\* their sum
CoeffProd_join(this, other) ==
    [l \in DOMAIN this \cup DOMAIN other |->
        IF l \in DOMAIN this /\ l \in DOMAIN other
        THEN (IF this[l] > other[l] THEN this[l] ELSE other[l])
        ELSE IF l \in DOMAIN this THEN this[l] ELSE other[l]]

CoeffProd_mul(this, other) ==
    [l \in DOMAIN this \cup DOMAIN other |->
        (IF l \in DOMAIN this THEN this[l] ELSE 0)
      + (IF l \in DOMAIN other THEN other[l] ELSE 0)]

\* feed_dict.at(label) throws std::out_of_range for a missing label
CoeffProd_throws(prod, feed_dict) == \E l \in DOMAIN prod : l \notin DOMAIN feed_dict

RECURSIVE CoeffProd_evaluate(_, _)
CoeffProd_evaluate(prod, feed_dict) ==
    IF DOMAIN prod = {} THEN 1
    ELSE LET l == CHOOSE l \in DOMAIN prod : TRUE
             rest == [m \in DOMAIN prod \ {l} |-> prod[m]]
         IN pow(feed_dict[l], prod[l]) * CoeffProd_evaluate(rest, feed_dict)

PHMono(coeff_prod, coeff) == [pl |-> "MONO", coeff_prod |-> coeff_prod, coeff |-> coeff]

PHPoly(terms) == [pl |-> "POLY", terms |-> terms]

\* PHPoly::add(prod, coeff) on the term map
PHPoly_add(terms, prod, coeff) ==
    IF prod \in DOMAIN terms
    THEN [terms EXCEPT ![prod] = @ + coeff]
    ELSE terms @@ (prod :> coeff)

RECURSIVE PHPoly_add_all(_, _, _)
PHPoly_add_all(terms, from, keys) ==
    IF keys = {} THEN terms
    ELSE LET k == CHOOSE k \in keys : TRUE
         IN PHPoly_add_all(PHPoly_add(terms, k, from[k]), from, keys \ {k})

PHTermsOf(p) == IF p.pl = "MONO" THEN (p.coeff_prod :> p.coeff) ELSE p.terms

PHEmpty == [k \in {} |-> 0]

RECURSIVE PHPoly_mul_terms(_, _, _, _)
PHPoly_mul_terms(acc, lt, rt, pairs) ==
    IF pairs = {} THEN acc
    ELSE LET pr == CHOOSE pr \in pairs : TRUE
         IN PHPoly_mul_terms(
                PHPoly_add(acc, CoeffProd_mul(pr[1], pr[2]), lt[pr[1]] * rt[pr[2]]),
                lt, rt, pairs \ {pr})

PlPolyOperation_mul(left, right) ==
    IF left.pl = "MONO" /\ right.pl = "MONO"
    THEN PHMono(CoeffProd_mul(left.coeff_prod, right.coeff_prod), left.coeff * right.coeff)
    ELSE PHPoly(PHPoly_mul_terms(PHEmpty, PHTermsOf(left), PHTermsOf(right),
                                 (DOMAIN PHTermsOf(left)) \X (DOMAIN PHTermsOf(right))))

PlPolyOperation_add(left, right) ==
    IF left.pl = "MONO" /\ right.pl = "MONO"
    THEN PHPoly(PHPoly_add(PHPoly_add(PHEmpty, right.coeff_prod, right.coeff),
                           left.coeff_prod, left.coeff))
    ELSE IF left.pl = "POLY" /\ right.pl = "MONO"
    THEN PHPoly(PHPoly_add(left.terms, right.coeff_prod, right.coeff))
    ELSE IF left.pl = "MONO" /\ right.pl = "POLY"
    THEN PHPoly(PHPoly_add(right.terms, left.coeff_prod, left.coeff))
    ELSE PHPoly(PHPoly_add_all(right.terms, left.terms, DOMAIN left.terms))

\* Coeff::expand of the four node kinds
RECURSIVE Coeff_expand(_)
Coeff_expand(c) ==
    CASE c.ct = "NUM" -> PHMono(CoeffProd_empty, c.value)
      [] c.ct = "PLACEHOLDER" -> PHMono(CoeffProd_of(c.label, 1), 1)
      [] c.ct = "MUL" -> PlPolyOperation_mul(Coeff_expand(c.right), Coeff_expand(c.left))
      [] c.ct = "ADD" -> PlPolyOperation_add(Coeff_expand(c.right), Coeff_expand(c.left))

\* PHPolyBase::evaluate: throws when a placeholder of any term has no binding
PHPoly_throws(p, feed_dict) ==
    \E prod \in DOMAIN PHTermsOf(p) : CoeffProd_throws(prod, feed_dict)

PHPoly_evaluate(p, feed_dict) ==
    LET t == PHTermsOf(p)
        v == [prod \in DOMAIN t |-> CoeffProd_evaluate(prod, feed_dict) * t[prod]]
    IN SumOver(v, DOMAIN t)

\* ------------------------------------------------------------------------
\* Products of the base pipeline (prod.h).  A Prod is its sorted_indices
\* array: strictly increasing, each entry the variable index plus one.
\* ------------------------------------------------------------------------
Prod_const == << >>

Prod_create(p0) == <<p0 + 1>>

\* Prod(p0, p1) throws unless p0 < p1
Prod_create2_throws(p0, p1) == p0 >= p1

Prod_create2(p0, p1) == <<p0 + 1, p1 + 1>>

Prod_get_var(prod, i) == prod[i + 1] - 1

Prod_vars(prod) == {prod[i] - 1 : i \in DOMAIN prod}

\* a merge that returns the left operand and leaves out the indices of the
\* other product
Prod_merge_left(this, other) == this

\* the two-pointer loop of Prod::merge (i, j zero based, previous_index = -1
\* initially).  The buffer the code allocates holds max(length) entries; for
\* the lengths reached here the extra entries stay inside the allocation's
\* slack, so the loop's result is the one returned.
RECURSIVE Prod_merge_loop(_, _, _, _, _, _)
Prod_merge_loop(this, other, i, j, previous_index, out) ==
    IF ~(i < Len(this) \/ j < Len(other)) THEN out
    ELSE IF j = Len(other) \/ (i < Len(this) /\ this[i + 1] < other[j + 1])
    THEN IF previous_index # this[i + 1]
         THEN Prod_merge_loop(this, other, i + 1, j, this[i + 1], Append(out, this[i + 1]))
         ELSE Prod_merge_loop(this, other, i + 1, j, previous_index, out)
    ELSE IF other[j + 1] # previous_index
         THEN Prod_merge_loop(this, other, i, j + 1, other[j + 1], Append(out, other[j + 1]))
         ELSE Prod_merge_loop(this, other, i, j + 1, previous_index, out)

Prod_merge(this, other) == Prod_merge_loop(this, other, 0, 0, -1, << >>)

\* ------------------------------------------------------------------------
\* Polynomials of the base pipeline (poly.h, poly.cpp).  Terms is the
\* unordered_map Prod -> Coeff, a function here.
\* ------------------------------------------------------------------------
Terms_empty == [k \in {} |-> 0]

\* unordered_map::insert leaves an existing entry unchanged
Terms_insert(terms, prod, coeff) ==
    IF prod \in DOMAIN terms THEN terms ELSE terms @@ (prod :> coeff)

Terms_erase(terms, prod) == [k \in DOMAIN terms \ {prod} |-> terms[k]]

Mono(prod, coeff) == [pt |-> "MONO", prod |-> prod, coeff |-> coeff]

Poly(terms) == [pt |-> "POLY", terms |-> terms]

\* PolyBase::get_terms
get_terms(poly) ==
    IF poly.pt = "MONO" THEN Terms_insert(Terms_empty, poly.prod, poly.coeff)
    ELSE poly.terms

\* PolyBase::to_multiple_poly
to_multiple_poly(poly) == Poly(get_terms(poly))

\* one step of the loops of mul_mp_sp and mul_mp_mp
mul_put(new_terms, prod, coeff) ==
    IF prod \in DOMAIN new_terms
    THEN [new_terms EXCEPT ![prod] = Coeff_add(@, coeff)]
    ELSE new_terms @@ (prod :> coeff)

RECURSIVE mul_mp_sp(_, _, _, _)
mul_mp_sp(terms, keys, sp, new_terms) ==
    IF keys = {} THEN new_terms
    ELSE LET k == CHOOSE k \in keys : TRUE
         IN mul_mp_sp(terms, keys \ {k}, sp,
                mul_put(new_terms, Prod_merge(k, sp.prod), Coeff_mul(terms[k], sp.coeff)))

RECURSIVE mul_mp_mp(_, _, _, _)
mul_mp_mp(left_terms, right_terms, pairs, new_terms) ==
    IF pairs = {} THEN new_terms
    ELSE LET pr == CHOOSE pr \in pairs : TRUE
         IN mul_mp_mp(left_terms, right_terms, pairs \ {pr},
                mul_put(new_terms, Prod_merge(pr[1], pr[2]),
                        Coeff_mul(left_terms[pr[1]], right_terms[pr[2]])))

mul_sp_sp(left, right) ==
    Mono(Prod_merge(left.prod, right.prod), Coeff_mul(left.coeff, right.coeff))

poly_mul(left, right) ==
    IF left.pt = "MONO" /\ right.pt = "MONO" THEN mul_sp_sp(left, right)
    ELSE IF left.pt = "MONO" /\ right.pt = "POLY"
    THEN Poly(mul_mp_sp(right.terms, DOMAIN right.terms, left, Terms_empty))
    ELSE IF left.pt = "POLY" /\ right.pt = "MONO"
    THEN Poly(mul_mp_sp(left.terms, DOMAIN left.terms, right, Terms_empty))
    ELSE Poly(mul_mp_mp(left.terms, right.terms,
                        (DOMAIN left.terms) \X (DOMAIN right.terms), Terms_empty))

\* Poly::copy: a new Terms with every entry of this->terms inserted
RECURSIVE Poly_copy_loop(_, _, _)
Poly_copy_loop(terms, keys, new_terms) ==
    IF keys = {} THEN new_terms
    ELSE LET it == CHOOSE it \in keys : TRUE
         IN Poly_copy_loop(terms, keys \ {it}, Terms_insert(new_terms, it, terms[it]))

Poly_copy(this) == Poly(Poly_copy_loop(this.terms, DOMAIN this.terms, Terms_empty))

\* Mono::copy
Mono_copy(this) == Mono(Prod_const, CoeffNum(1))

\* one step of merge_poly: terms->at(prod)->add(coeff), or insert
merge_put(terms, prod, coeff) ==
    IF prod \in DOMAIN terms
    THEN [terms EXCEPT ![prod] = Coeff_add(@, coeff)]
    ELSE terms @@ (prod :> coeff)

RECURSIVE merge_terms(_, _, _)
merge_terms(terms, adding_terms, keys) ==
    IF keys = {} THEN terms
    ELSE LET k == CHOOSE k \in keys : TRUE
         IN merge_terms(merge_put(terms, k, adding_terms[k]), adding_terms, keys \ {k})

\* poly::merge_poly(org_poly, poly) on the terms of org_poly
merge_poly(org_terms, poly) ==
    IF poly.pt = "MONO" THEN merge_put(org_terms, poly.prod, poly.coeff)
    ELSE merge_terms(org_terms, poly.terms, DOMAIN poly.terms)

\* PolyBase::compile_coeff and CompiledSubH::compile_coeff: every
\* coefficient is expanded to a placeholder polynomial
compile_coeff(terms) == [k \in DOMAIN terms |-> Coeff_expand(terms[k])]

\* ------------------------------------------------------------------------
\* Encoder (encoder.h, encoder.cpp): the two hash maps, the counter and the
\* vector of labels
\* ------------------------------------------------------------------------
Encoder_new ==
    [label_to_index |-> << >>, index_to_label |-> << >>, current_index |-> 0,
     variables |-> << >>]

Encoder_has(encoder, label) == label \in DOMAIN encoder.label_to_index

Encoder_index(encoder, label) == encoder.label_to_index[label]

\* Encoder::encode: the encoder after the call, and the index returned
Encoder_encode(encoder, label) ==
    IF Encoder_has(encoder, label) THEN encoder
    ELSE [label_to_index |-> encoder.label_to_index @@ (label :> encoder.current_index),
          index_to_label |-> (encoder.current_index :> label) @@ encoder.index_to_label,
          current_index |-> encoder.current_index + 1,
          variables |-> Append(encoder.variables, label)]

Encoder_encoded(encoder, label) ==
    Encoder_index(Encoder_encode(encoder, label), label)

Encoder_decode(encoder, index) == encoder.index_to_label[index]

\* the copy constructor: the maps and the vector are copied; the body assigns
\* the new object's current_index to itself, which leaves the value of the
\* default member initializer
Encoder_copy(encoder) ==
    [label_to_index |-> encoder.label_to_index, index_to_label |-> encoder.index_to_label,
     current_index |-> 0, variables |-> encoder.variables]

\* ------------------------------------------------------------------------
\* Expression trees (express.h, abstract_syntax_tree.hpp).  The children of
\* an Add are kept in the order of its node list.
\* ------------------------------------------------------------------------
Binary(label) == [type |-> "Binary", label |-> label]

Spin(label) == [type |-> "Spin", label |-> label]

Num(value) == [type |-> "Num", value |-> value]

Placeholder(label) == [type |-> "Placeholder", label |-> label]

Add(children) == [type |-> "Add", children |-> children]

Mul(left, right) == [type |-> "Mul", left |-> left, right |-> right]

WithPenalty(hamiltonian, penalty, label) ==
    [type |-> "WithPenalty", hamiltonian |-> hamiltonian, penalty |-> penalty, label |-> label]

SubH(hamiltonian, label) == [type |-> "SubH", hamiltonian |-> hamiltonian, label |-> label]

Constraint(hamiltonian, label, condition) ==
    [type |-> "Constraint", hamiltonian |-> hamiltonian, label |-> label,
     condition |-> condition]

\* Base::add(other) builds Add(this, other); Add::add(other) puts the new
\* child in front of the node list of this
Base_add(this, other) ==
    IF this.type = "Add" THEN Add(<<other>> \o this.children)
    ELSE Add(<<this, other>>)

Base_mul(this, other) == Mul(this, other)

\* Base::pow(other): result starts as this and the loop, entered with i = 0,
\* multiplies it by this while i < other - 1
RECURSIVE Base_pow(_, _, _, _)
Base_pow(result_ptr, this_ptr, i, other) ==
    IF i < other - 1 THEN Base_pow(Base_mul(result_ptr, this_ptr), this_ptr, i + 1, other)
    ELSE result_ptr

\* Base::equal_to of express.h: each class compares the type and then its own
\* members; WithPenalty compares the hamiltonian and the penalty
RECURSIVE equal_to(_, _)
equal_to(this, other) ==
    IF other.type # this.type THEN FALSE
    ELSE CASE this.type \in {"Binary", "Spin", "Placeholder"} -> this.label = other.label
           [] this.type = "Num" -> this.value = other.value
           [] this.type = "Add" ->
                 /\ Len(this.children) = Len(other.children)
                 /\ \A i \in DOMAIN this.children :
                       equal_to(this.children[i], other.children[i])
           [] this.type = "Mul" ->
                 equal_to(this.left, other.left) /\ equal_to(this.right, other.right)
           [] this.type = "WithPenalty" ->
                 /\ equal_to(this.hamiltonian, other.hamiltonian)
                 /\ equal_to(this.penalty, other.penalty)
           [] this.type \in {"SubH", "Constraint"} ->
                 this.label = other.label /\ equal_to(this.hamiltonian, other.hamiltonian)

\* expression::equals of abstract_syntax_tree.hpp: variable::equals compares
\* the type and the name, sub_hamiltonian::equals adds the expression and
\* with_penalty::equals the penalty
RECURSIVE equals(_, _)
equals(this, other) ==
    IF other.type # this.type THEN FALSE
    ELSE CASE this.type \in {"Binary", "Spin", "Placeholder"} -> this.label = other.label
           [] this.type = "Num" -> this.value = other.value
           [] this.type = "Add" ->
                 /\ Len(this.children) = Len(other.children)
                 /\ \A i \in DOMAIN this.children : equals(this.children[i], other.children[i])
           [] this.type = "Mul" ->
                 equals(this.left, other.left) /\ equals(this.right, other.right)
           [] this.type \in {"SubH", "Constraint"} ->
                 this.label = other.label /\ equals(this.hamiltonian, other.hamiltonian)
           [] this.type = "WithPenalty" ->
                 /\ this.label = other.label /\ equals(this.hamiltonian, other.hamiltonian)
                 /\ equals(this.penalty, other.penalty)

\* the predicates a Constraint may carry, applied to an energy
condition_holds(condition, energy) ==
    CASE condition = "eq0" -> energy = 0
      [] condition = "le1" -> energy <= 1
      [] OTHER -> FALSE

\* ------------------------------------------------------------------------
\* Expanded (expanded.h, expanded.cpp).  A linked list is the sequence of
\* its nodes from first; last is the position of the node the last pointer
\* names, 0 for nullptr.  crashed records a dereference of a null last.
\* ------------------------------------------------------------------------
Expanded(poly) ==
    [crashed |-> FALSE, poly |-> poly,
     sub_hs |-> << >>, last_sub_hs |-> 0,
     penalties |-> << >>, last_penalties |-> 0]

Crashed == [Expanded(Mono(Prod_const, CoeffNum(0))) EXCEPT !.crashed = TRUE]

CompiledSubH(label, terms, condition) ==
    [label |-> label, compiled_qubo |-> compile_coeff(terms), condition |-> condition]

CompiledPenalty(label, poly) == [label |-> label, poly |-> poly]

\* merge_linked_list: dereferences main_last when both lists are non-empty
merge_linked_list_crashes(main_first, main_last, append_first) ==
    append_first # << >> /\ main_first # << >> /\ main_last = 0

merge_linked_list_first(main_first, main_last, append_first) ==
    IF append_first = << >> THEN main_first
    ELSE IF main_first # << >> THEN SubSeq(main_first, 1, main_last) \o append_first
    ELSE append_first

merge_linked_list_last(main_first, main_last, append_first, append_last) ==
    IF append_first = << >> THEN main_last
    ELSE IF main_first # << >>
    THEN (IF append_last = 0 THEN 0 ELSE main_last + append_last)
    ELSE append_last

merge_info(main, append) ==
    IF \/ merge_linked_list_crashes(main.sub_hs, main.last_sub_hs, append.sub_hs)
       \/ merge_linked_list_crashes(main.penalties, main.last_penalties, append.penalties)
    THEN Crashed
    ELSE [main EXCEPT
            !.sub_hs = merge_linked_list_first(main.sub_hs, main.last_sub_hs, append.sub_hs),
            !.last_sub_hs = merge_linked_list_last(main.sub_hs, main.last_sub_hs,
                                                    append.sub_hs, append.last_sub_hs),
            !.penalties = merge_linked_list_first(main.penalties, main.last_penalties,
                                                   append.penalties),
            !.last_penalties = merge_linked_list_last(main.penalties, main.last_penalties,
                                                       append.penalties, append.last_penalties)]

expanded_mul(left_exp, right_exp) ==
    IF left_exp.crashed \/ right_exp.crashed THEN Crashed
    ELSE LET new_expand == Expanded(poly_mul(left_exp.poly, right_exp.poly))
             merged == merge_info(new_expand, left_exp)
         IN IF merged.crashed THEN Crashed ELSE merge_info(merged, right_exp)

expanded_add(main, append) ==
    IF main.crashed \/ append.crashed THEN Crashed
    ELSE merge_info(
            [main EXCEPT !.poly = Poly(merge_poly(get_terms(main.poly), append.poly))],
            append)

\* Expanded::add_sub_h
add_sub_h(this, label, terms, condition) ==
    IF this.crashed THEN Crashed
    ELSE IF this.sub_hs = << >>
    THEN [this EXCEPT !.sub_hs = <<CompiledSubH(label, terms, condition)>>,
                      !.last_sub_hs = 1]
    ELSE IF this.last_sub_hs = 0 THEN Crashed
    ELSE [this EXCEPT
            !.sub_hs = Append(SubSeq(this.sub_hs, 1, this.last_sub_hs),
                              CompiledSubH(label, terms, condition)),
            !.last_sub_hs = this.last_sub_hs + 1]

\* Expanded::add_penalty: the penalty's polynomial joins the penalty list and
\* the penalty's sub-Hamiltonians join the sub-Hamiltonian list; the penalty
\* list of expanded itself is not read
add_penalty(this, label, expanded) ==
    IF this.crashed \/ expanded.crashed THEN Crashed
    ELSE IF this.sub_hs # << >> /\ this.last_sub_hs = 0 THEN Crashed
    ELSE LET pen == CompiledPenalty(label, expanded.poly)
             with_pen ==
                IF this.penalties = << >>
                THEN [this EXCEPT !.penalties = <<pen>>, !.last_penalties = 1]
                ELSE [this EXCEPT
                        !.penalties = Append(SubSeq(this.penalties, 1, this.last_penalties), pen),
                        !.last_penalties = this.last_penalties + 1]
         IN IF this.sub_hs = << >>
            THEN [with_pen EXCEPT !.sub_hs = expanded.sub_hs,
                                  !.last_sub_hs = expanded.last_sub_hs]
            ELSE [with_pen EXCEPT
                    !.sub_hs = SubSeq(this.sub_hs, 1, this.last_sub_hs) \o expanded.sub_hs,
                    !.last_sub_hs = IF expanded.last_sub_hs = 0 THEN 0
                                    ELSE this.last_sub_hs + expanded.last_sub_hs]

\* ------------------------------------------------------------------------
\* expand of the base pipeline (express.cpp).  The result carries the
\* Expanded and the encoder after the call.
\* ------------------------------------------------------------------------
RECURSIVE Base_expand(_, _)
RECURSIVE Add_expand_loop(_, _, _, _)

\* the while loop of Add::expand over the nodes after the first
Add_expand_loop(children, i, new_expanded, encoder) ==
    IF i > Len(children) THEN [exp |-> new_expanded, enc |-> encoder]
    ELSE LET tmp == Base_expand(children[i], encoder)
         IN Add_expand_loop(children, i + 1, expanded_add(new_expanded, tmp.exp), tmp.enc)

Base_expand(e, encoder) ==
    CASE e.type = "Binary" ->
            [exp |-> Expanded(Mono(Prod_create(Encoder_encoded(encoder, e.label)), CoeffNum(1))),
             enc |-> Encoder_encode(encoder, e.label)]
      [] e.type = "Spin" ->
            [exp |-> Expanded(Poly((Prod_create(Encoder_encoded(encoder, e.label))
                                       :> CoeffNum(2)) @@ (Prod_const :> CoeffNum(-1)))),
             enc |-> Encoder_encode(encoder, e.label)]
      [] e.type = "Num" ->
            [exp |-> Expanded(Mono(Prod_const, CoeffNum(e.value))), enc |-> encoder]
      [] e.type = "Placeholder" ->
            [exp |-> Expanded(Mono(Prod_const, CoeffPlaceholder(e.label))), enc |-> encoder]
      [] e.type = "Add" ->
            LET first == Base_expand(e.children[1], encoder)
            IN Add_expand_loop(e.children, 2, first.exp, first.enc)
      [] e.type = "Mul" ->
            LET left_expanded == Base_expand(e.left, encoder)
                right_expanded == Base_expand(e.right, left_expanded.enc)
            IN [exp |-> expanded_mul(left_expanded.exp, right_expanded.exp),
                enc |-> right_expanded.enc]
      [] e.type = "WithPenalty" ->
            LET hamiltonian_expand == Base_expand(e.hamiltonian, encoder)
                penalty_expanded == Base_expand(e.penalty, hamiltonian_expand.enc)
            IN [exp |-> add_penalty(hamiltonian_expand.exp, e.label, penalty_expanded.exp),
                enc |-> penalty_expanded.enc]
      [] e.type = "SubH" ->
            LET hamiltonian_exp == Base_expand(e.hamiltonian, encoder)
            IN [exp |-> add_sub_h(hamiltonian_exp.exp, e.label,
                                  get_terms(hamiltonian_exp.exp.poly), "nullptr"),
                enc |-> hamiltonian_exp.enc]
      [] e.type = "Constraint" ->
            LET hamiltonian_exp == Base_expand(e.hamiltonian, encoder)
            IN [exp |-> add_sub_h(hamiltonian_exp.exp, e.label,
                                  get_terms(hamiltonian_exp.exp.poly), e.condition),
                enc |-> hamiltonian_exp.enc]

\* the first part of Expanded::get_compiled_qubo: the main polynomial plus
\* the polynomial of the first penalty of every label, in list order
RECURSIVE merge_penalties(_, _, _, _)
merge_penalties(mp, first_penalties, i, penalties) ==
    IF i > Len(first_penalties) THEN mp
    ELSE IF first_penalties[i].label \notin penalties
    THEN merge_penalties(merge_poly(mp, first_penalties[i].poly), first_penalties, i + 1,
                         penalties \cup {first_penalties[i].label})
    ELSE merge_penalties(mp, first_penalties, i + 1, penalties)

\* ------------------------------------------------------------------------
\* Order reduction of the base pipeline (reduce_order.cpp)
\* ------------------------------------------------------------------------
\* add_term: coeff->add(result->second), or insert
add_term(terms, prod, coeff) ==
    IF prod \notin DOMAIN terms THEN terms @@ (prod :> coeff)
    ELSE [terms EXCEPT ![prod] = Coeff_add(coeff, @)]

has_higher_degree(terms) == \E prod \in DOMAIN terms : Len(prod) > 2

\* the counter of find_most_common: pairs of variables of a term of degree
\* above two, counted over those terms
counter_keys(terms) ==
    {p \in UNION {Prod_vars(prod) \X Prod_vars(prod) : prod \in DOMAIN terms} :
        /\ p[1] < p[2]
        /\ \E prod \in DOMAIN terms : Len(prod) > 2 /\ {p[1], p[2]} \subseteq Prod_vars(prod)}

counter(terms, p) ==
    Cardinality({prod \in DOMAIN terms : Len(prod) > 2 /\ {p[1], p[2]} \subseteq Prod_vars(prod)})

pair_less(p, q) == p[1] < q[1] \/ (p[1] = q[1] /\ p[2] < q[2])

\* the keys of a std::map of pairs in the order begin() .. end() meets them
RECURSIVE map_order(_)
map_order(keys) ==
    IF keys = {} THEN << >>
    ELSE LET first == CHOOSE p \in keys : \A q \in keys : q = p \/ pair_less(p, q)
         IN <<first>> \o map_order(keys \ {first})

\* a loop over the counter that takes a pair whenever its count is not below
\* the best count so far
RECURSIVE last_common_loop(_, _, _, _, _)
last_common_loop(terms, order, i, best_count, most_common) ==
    IF i > Len(order) THEN most_common
    ELSE IF best_count <= counter(terms, order[i])
    THEN last_common_loop(terms, order, i + 1, counter(terms, order[i]), order[i])
    ELSE last_common_loop(terms, order, i + 1, best_count, most_common)

find_last_common(terms) ==
    last_common_loop(terms, map_order(counter_keys(terms)), 1, 0, <<0, 0>>)

\* the second loop of find_most_common: a pair replaces the best one only when
\* its count is larger
RECURSIVE most_common_loop(_, _, _, _, _)
most_common_loop(terms, order, i, best_count, most_common) ==
    IF i > Len(order) THEN most_common
    ELSE IF best_count < counter(terms, order[i])
    THEN most_common_loop(terms, order, i + 1, counter(terms, order[i]), order[i])
    ELSE most_common_loop(terms, order, i + 1, best_count, most_common)

find_most_common(terms) ==
    most_common_loop(terms, map_order(counter_keys(terms)), 1, 0, <<0, 0>>)

create_new_var_label(index_pair) == ToString(index_pair[1]) \o "*" \o ToString(index_pair[2])

in_pair(prod, index_pair) == {index_pair[1], index_pair[2]} \subseteq Prod_vars(prod)

\* the product replace_variable builds from a term holding both variables
replaced_prod(prod, index_pair, new_variable) ==
    SelectSeq(prod, LAMBDA v : v - 1 # index_pair[1] /\ v - 1 # index_pair[2])
        \o <<new_variable + 1>>

replace_one(terms, prod, index_pair, new_variable) ==
    Terms_insert(Terms_erase(terms, prod),
                 replaced_prod(prod, index_pair, new_variable), terms[prod])

\* the for loop of replace_variable.  todo holds the terms the iterator has
\* still to visit in this pass; the order of the pass is any order.  After a
\* replacement the iterator is set to begin() and the loop's increment steps
\* over that element, so the next pass visits every term but one.
RECURSIVE replace_variable_loop(_, _, _, _)
replace_variable_loop(terms, todo, index_pair, new_variable) ==
    LET hit == {prod \in todo : in_pair(prod, index_pair)}
    IN IF hit = {} THEN {terms}
       ELSE UNION {
              LET t2 == replace_one(terms, prod, index_pair, new_variable)
              IN UNION {replace_variable_loop(t2, DOMAIN t2 \ {begin}, index_pair, new_variable)
                        : begin \in DOMAIN t2}
              : prod \in hit}

replace_variable(terms, index_pair, new_variable) ==
    replace_variable_loop(terms, DOMAIN terms, index_pair, new_variable)

\* Prod::create(p0, p1) of add_and_constraint throws unless p0 < p1
add_and_constraint_throws(index_pair, new_var) ==
    \/ Prod_create2_throws(index_pair[1], new_var)
    \/ Prod_create2_throws(index_pair[2], new_var)
    \/ Prod_create2_throws(index_pair[1], index_pair[2])

\* the term of the pair alone, without the terms of the new variable
add_pair_term(terms, index_pair, new_var, strength_coeff) ==
    add_term(terms, Prod_create2(index_pair[1], index_pair[2]), strength_coeff)

add_and_constraint(terms, index_pair, new_var, strength_coeff) ==
    LET t1 == add_term(terms, Prod_create(new_var), Coeff_mul_num(strength_coeff, 3))
        t2 == add_term(t1, Prod_create2(index_pair[1], new_var),
                       Coeff_mul_num(strength_coeff, -2))
        t3 == add_term(t2, Prod_create2(index_pair[2], new_var),
                       Coeff_mul_num(strength_coeff, -2))
    IN add_term(t3, Prod_create2(index_pair[1], index_pair[2]), strength_coeff)

\* ------------------------------------------------------------------------
\* Coefficient expressions of the hpp pipeline (abstract_syntax_tree.hpp)
\* ------------------------------------------------------------------------
\* operator+ on expressions: two numeric literals fold, anything else builds
\* an add_operator over lhs and rhs
expression_plus(lhs, rhs) ==
    IF lhs.type = "Num" /\ rhs.type = "Num" THEN Num(lhs.value + rhs.value)
    ELSE Add(<<lhs, rhs>>)

\* operator* on expressions
expression_times(lhs, rhs) ==
    IF lhs.type = "Num" /\ rhs.type = "Num" THEN Num(lhs.value * rhs.value)
    ELSE Mul(lhs, rhs)

\* the loop of the __pow__ binding of main.cpp, entered with i = 1 once the
\* exponent has been found positive
RECURSIVE expression_pow(_, _, _, _)
expression_pow(result_ptr, expression, i, expotent) ==
    IF i < expotent
    THEN expression_pow(expression_times(result_ptr, expression), expression, i + 1, expotent)
    ELSE result_ptr

\* the placeholders the evaluate visitor reaches in a coefficient
RECURSIVE placeholders_of(_)
placeholders_of(e) ==
    CASE e.type = "Placeholder" -> {e.label}
      [] e.type = "Num" -> {}
      [] e.type = "Mul" -> placeholders_of(e.left) \cup placeholders_of(e.right)
      [] e.type = "Add" -> UNION {placeholders_of(e.children[i]) : i \in DOMAIN e.children}

\* evaluate throws std::invalid_argument at a placeholder without a binding
evaluate_throws(e, feed_dict) == \E l \in placeholders_of(e) : l \notin DOMAIN feed_dict

RECURSIVE evaluate(_, _)
RECURSIVE evaluate_add(_, _, _)

evaluate_add(children, i, feed_dict) ==
    IF i > Len(children) THEN 0
    ELSE evaluate(children[i], feed_dict) + evaluate_add(children, i + 1, feed_dict)

evaluate(e, feed_dict) ==
    CASE e.type = "Num" -> e.value
      [] e.type = "Placeholder" -> feed_dict[e.label]
      [] e.type = "Mul" -> evaluate(e.left, feed_dict) * evaluate(e.right, feed_dict)
      [] e.type = "Add" -> evaluate_add(e.children, 1, feed_dict)

\* ------------------------------------------------------------------------
\* Products, variables and polys of the hpp pipeline (product.hpp,
\* variables.hpp, poly.hpp).  A product is its sequence of indexes.
\* ------------------------------------------------------------------------
RECURSIVE set_union(_, _)
set_union(a, b) ==
    IF a = << >> THEN b
    ELSE IF b = << >> THEN a
    ELSE IF a[1] < b[1] THEN <<a[1]>> \o set_union(Tail(a), b)
    ELSE IF b[1] < a[1] THEN <<b[1]>> \o set_union(a, Tail(b))
    ELSE <<a[1]>> \o set_union(Tail(a), Tail(b))

product_times(product_1, product_2) == set_union(product_1, product_2)

\* variables: the maps _indexes (name to index) and _names (index to name)
variables_new == [indexes |-> << >>, names |-> << >>]

variables_has(variables, variable_name) == variable_name \in DOMAIN variables.indexes

\* variables::index: emplace with the current size as the new index
variables_index(variables, variable_name) ==
    IF variables_has(variables, variable_name)
    THEN variables.indexes[variable_name]
    ELSE Cardinality(DOMAIN variables.indexes)

\* _names.emplace keeps the name an index already has
variables_after_index(variables, variable_name) ==
    IF variables_has(variables, variable_name) THEN variables
    ELSE LET index == Cardinality(DOMAIN variables.indexes)
         IN [indexes |-> variables.indexes @@ (variable_name :> index),
             names |-> variables.names @@ (index :> variable_name)]

variables_name(variables, index) == variables.names[index]

\* variables::names: a vector of size(_names) with result[index] = name
variables_names(variables) ==
    [i \in 1 .. Cardinality(DOMAIN variables.names) |-> variables.names[i - 1]]

single_poly(coeff, prd) == [poly_type |-> "single_poly", prd |-> prd, coeff |-> coeff]

multi_poly(terms) == [poly_type |-> "multi_poly", terms |-> terms]

\* poly(): the empty polynomial, the additive zero
poly_empty == multi_poly(Terms_empty)

poly_to_multi(p) ==
    IF p.poly_type = "single_poly" THEN multi_poly(p.prd :> p.coeff) ELSE p

poly_size(p) == IF p.poly_type = "single_poly" THEN 1 ELSE Cardinality(DOMAIN p.terms)

\* emplace(product, coefficient), and it->second + coefficient when present
emplace_or_add(terms, product, coefficient) ==
    IF product \in DOMAIN terms
    THEN [terms EXCEPT ![product] = expression_plus(@, coefficient)]
    ELSE terms @@ (product :> coefficient)

RECURSIVE multiply_multi_multi(_, _, _, _)
multiply_multi_multi(terms_1, terms_2, pairs, result) ==
    IF pairs = {} THEN result
    ELSE LET pr == CHOOSE pr \in pairs : TRUE
         IN multiply_multi_multi(terms_1, terms_2, pairs \ {pr},
                emplace_or_add(result, product_times(pr[1], pr[2]),
                               expression_times(terms_1[pr[1]], terms_2[pr[2]])))

RECURSIVE add_multi_multi(_, _, _)
add_multi_multi(terms_1, terms_2, keys) ==
    IF keys = {} THEN terms_1
    ELSE LET k == CHOOSE k \in keys : TRUE
         IN add_multi_multi(emplace_or_add(terms_1, k, terms_2[k]), terms_2, keys \ {k})

poly_times(poly_1, poly_2) ==
    IF poly_1.poly_type = "single_poly" /\ poly_2.poly_type = "single_poly"
    THEN single_poly(expression_times(poly_1.coeff, poly_2.coeff),
                     product_times(poly_1.prd, poly_2.prd))
    ELSE LET t1 == poly_to_multi(poly_1).terms
             t2 == poly_to_multi(poly_2).terms
         IN multi_poly(multiply_multi_multi(t1, t2, (DOMAIN t1) \X (DOMAIN t2), Terms_empty))

\* operator+ on polys.  Two single polys are compared by the address of their
\* products, which differs for two polys built by two visits; the initializer
\* list then keeps the first entry of an equal product.
poly_plus(poly_1, poly_2) ==
    IF poly_1.poly_type = "single_poly" /\ poly_2.poly_type = "single_poly"
    THEN multi_poly(Terms_insert(poly_1.prd :> poly_1.coeff, poly_2.prd, poly_2.coeff))
    ELSE IF poly_1.poly_type = "multi_poly" /\ poly_2.poly_type = "single_poly"
    THEN multi_poly(emplace_or_add(poly_1.terms, poly_2.prd, poly_2.coeff))
    ELSE IF poly_1.poly_type = "single_poly" /\ poly_2.poly_type = "multi_poly"
    THEN multi_poly(emplace_or_add(poly_2.terms, poly_1.prd, poly_1.coeff))
    ELSE IF poly_size(poly_1) > poly_size(poly_2)
    THEN multi_poly(add_multi_multi(poly_1.terms, poly_2.terms, DOMAIN poly_2.terms))
    ELSE multi_poly(add_multi_multi(poly_2.terms, poly_1.terms, DOMAIN poly_1.terms))

\* ------------------------------------------------------------------------
\* The expand visitor of compiler.hpp: (polynomial, penalty) per node, the
\* variables table threaded through the visits.  It records no
\* sub-Hamiltonian and no constraint, and its top level returns the
\* polynomial without the penalty.
\* ------------------------------------------------------------------------
RECURSIVE compiler_visit(_, _)
RECURSIVE compiler_visit_add(_, _, _, _, _)

compiler_visit_add(children, i, polynomial, penalty, variables) ==
    IF i > Len(children)
    THEN [polynomial |-> polynomial, penalty |-> penalty, variables |-> variables]
    ELSE LET child == compiler_visit(children[i], variables)
         IN compiler_visit_add(children, i + 1,
                               poly_plus(polynomial, child.polynomial),
                               poly_plus(penalty, child.penalty), child.variables)

compiler_visit(e, variables) ==
    CASE e.type = "Binary" ->
            [polynomial |-> single_poly(Num(1), <<variables_index(variables, e.label)>>),
             penalty |-> poly_empty,
             variables |-> variables_after_index(variables, e.label)]
      [] e.type = "Spin" ->
            [polynomial |-> multi_poly((<<variables_index(variables, e.label)>> :> Num(2))
                                       @@ (<< >> :> Num(-1))),
             penalty |-> poly_empty,
             variables |-> variables_after_index(variables, e.label)]
      [] e.type \in {"Num", "Placeholder"} ->
            [polynomial |-> single_poly(e, << >>), penalty |-> poly_empty,
             variables |-> variables]
      [] e.type = "Add" ->
            compiler_visit_add(e.children, 1, poly_empty, poly_empty, variables)
      [] e.type = "Mul" ->
            LET l == compiler_visit(e.left, variables)
                r == compiler_visit(e.right, l.variables)
            IN [polynomial |-> poly_times(l.polynomial, r.polynomial),
                penalty |-> poly_plus(l.penalty, r.penalty),
                variables |-> r.variables]
      [] e.type \in {"SubH", "Constraint"} -> compiler_visit(e.hamiltonian, variables)
      [] e.type = "WithPenalty" ->
            LET ex == compiler_visit(e.hamiltonian, variables)
                pn == compiler_visit(e.penalty, ex.variables)
            IN [polynomial |-> ex.polynomial,
                penalty |-> poly_plus(poly_plus(ex.penalty, pn.polynomial), pn.penalty),
                variables |-> pn.variables]

\* expand::operator()(expression, variables) of compiler.hpp
compiler_expand(e) ==
    LET top == compiler_visit(e, variables_new)
    IN [polynomial |-> top.polynomial, penalty |-> top.penalty,
        sub_hamiltonians |-> Terms_empty, constraints |-> Terms_empty,
        variables |-> top.variables]

\* ------------------------------------------------------------------------
\* The expand visitor of expand.hpp: it records a copy of the polynomial of
\* every SubH and Constraint under its name (emplace: the first one stays),
\* returns for WithPenalty the polynomial of the penalty alone, and adds the
\* penalty to the polynomial at the top level.
\* ------------------------------------------------------------------------
map_emplace(map, key, value) == IF key \in DOMAIN map THEN map ELSE map @@ (key :> value)

RECURSIVE expand_visit(_, _)
RECURSIVE expand_visit_add(_, _, _, _, _)

expand_visit_add(children, i, polynomial, penalty, st) ==
    IF i > Len(children) THEN [polynomial |-> polynomial, penalty |-> penalty, st |-> st]
    ELSE LET child == expand_visit(children[i], st)
         IN expand_visit_add(children, i + 1,
                             poly_plus(polynomial, child.polynomial),
                             poly_plus(penalty, child.penalty), child.st)

expand_visit(e, st) ==
    CASE e.type = "Binary" ->
            [polynomial |-> single_poly(Num(1), <<variables_index(st.variables, e.label)>>),
             penalty |-> poly_empty,
             st |-> [st EXCEPT !.variables = variables_after_index(@, e.label)]]
      [] e.type = "Spin" ->
            [polynomial |-> multi_poly((<<variables_index(st.variables, e.label)>> :> Num(2))
                                       @@ (<< >> :> Num(-1))),
             penalty |-> poly_empty,
             st |-> [st EXCEPT !.variables = variables_after_index(@, e.label)]]
      [] e.type \in {"Num", "Placeholder"} ->
            [polynomial |-> single_poly(e, << >>), penalty |-> poly_empty, st |-> st]
      [] e.type = "Add" -> expand_visit_add(e.children, 1, poly_empty, poly_empty, st)
      [] e.type = "Mul" ->
            LET l == expand_visit(e.left, st)
                r == expand_visit(e.right, l.st)
            IN [polynomial |-> poly_times(l.polynomial, r.polynomial),
                penalty |-> poly_plus(l.penalty, r.penalty), st |-> r.st]
      [] e.type = "SubH" ->
            LET h == expand_visit(e.hamiltonian, st)
            IN [h EXCEPT !.st.sub_hamiltonians = map_emplace(@, e.label, h.polynomial)]
      [] e.type = "Constraint" ->
            LET h == expand_visit(e.hamiltonian, st)
            IN [h EXCEPT !.st.constraints =
                    map_emplace(@, e.label,
                                [polynomial |-> h.polynomial, condition |-> e.condition])]
      [] e.type = "WithPenalty" ->
            LET ex == expand_visit(e.hamiltonian, st)
                pn == expand_visit(e.penalty, ex.st)
            IN [polynomial |-> ex.polynomial, penalty |-> pn.polynomial, st |-> pn.st]

\* expand::operator()(expression, variables) of expand.hpp
expand_expand(e) ==
    LET top == expand_visit(e, [variables |-> variables_new,
                                sub_hamiltonians |-> Terms_empty,
                                constraints |-> Terms_empty])
    IN [polynomial |-> poly_plus(top.polynomial, top.penalty), penalty |-> top.penalty,
        sub_hamiltonians |-> top.st.sub_hamiltonians,
        constraints |-> top.st.constraints,
        variables |-> top.st.variables]

\* ------------------------------------------------------------------------
\* convert_to_quadratic (expand.hpp)
\* ------------------------------------------------------------------------
\* find_replacing_pair counts the index pairs of the products of more than
\* two indexes; max_element takes the first largest count in map order
replacing_keys(polynomial) ==
    {p \in UNION {Range(product) \X Range(product) : product \in DOMAIN polynomial} :
        /\ p[1] < p[2]
        /\ \E product \in DOMAIN polynomial :
              Len(product) > 2 /\ {p[1], p[2]} \subseteq Range(product)}

replacing_count(polynomial, p) ==
    Cardinality({product \in DOMAIN polynomial :
                    Len(product) > 2 /\ {p[1], p[2]} \subseteq Range(product)})

\* std::max_element: the first element that no later element exceeds
RECURSIVE max_element(_, _, _, _)
max_element(polynomial, counts, i, largest) ==
    IF i > Len(counts) THEN counts[largest]
    ELSE IF replacing_count(polynomial, counts[largest]) < replacing_count(polynomial, counts[i])
    THEN max_element(polynomial, counts, i + 1, i)
    ELSE max_element(polynomial, counts, i + 1, largest)

find_replacing_pair(polynomial) ==
    max_element(polynomial, map_order(replacing_keys(polynomial)), 2, 1)

replacing_pair_name(variables, replacing_pair) ==
    variables_name(variables, replacing_pair[1]) \o " * "
        \o variables_name(variables, replacing_pair[2])

\* the inner loop: while find_if finds a term with both indexes, erase it and
\* emplace its coefficient under the product without them plus the new index
RECURSIVE replace_loop(_, _, _)
replace_loop(result, replacing_pair, replacing_pair_index) ==
    LET found == {product \in DOMAIN result :
                    {replacing_pair[1], replacing_pair[2]} \subseteq Range(product)}
    IN IF found = {} THEN result
       ELSE LET it == CHOOSE product \in found : TRUE
                indexes == SelectSeq(it, LAMBDA index :
                              index # replacing_pair[1] /\ index # replacing_pair[2])
                           \o <<replacing_pair_index>>
            IN replace_loop(Terms_insert(Terms_erase(result, it), indexes, result[it]),
                            replacing_pair, replacing_pair_index)

emplace_terms(result, replacing_pair, replacing_pair_index, strength_expr) ==
    LET r1 == emplace_or_add(result, <<replacing_pair_index>>,
                             expression_times(Num(3), strength_expr))
        r2 == emplace_or_add(r1, <<replacing_pair[1], replacing_pair_index>>,
                             expression_times(Num(-2), strength_expr))
        r3 == emplace_or_add(r2, <<replacing_pair[2], replacing_pair_index>>,
                             expression_times(Num(-2), strength_expr))
    IN emplace_or_add(r3, <<replacing_pair[1], replacing_pair[2]>>, strength_expr)

\* ------------------------------------------------------------------------
\* BinaryQuadraticModel (cpp_dimod/binary_quadratic_model.hpp) over labels
\* ------------------------------------------------------------------------
\* the constructor: add_variables_from(linear), then add_interactions_from
\* (quadratic), which gives a zero linear bias to a variable not yet present
BinaryQuadraticModel(linear, quadratic, offset) ==
    LET seen == UNION {{k[1], k[2]} : k \in DOMAIN quadratic}
    IN [linear |-> [v \in (DOMAIN linear) \cup seen |->
                        IF v \in DOMAIN linear THEN linear[v] ELSE 0],
        quadratic |-> quadratic,
        offset |-> offset]

\* sample[key]: a key that is absent reads as 0
sample_get(sample, key) == IF key \in DOMAIN sample THEN sample[key] ELSE 0

bqm_energy(bqm, sample) ==
    bqm.offset
    + SumOver([v \in DOMAIN bqm.linear |-> sample_get(sample, v) * bqm.linear[v]],
              DOMAIN bqm.linear)
    + SumOver([k \in DOMAIN bqm.quadratic |->
                  sample_get(sample, k[1]) * sample_get(sample, k[2]) * bqm.quadratic[k]],
              DOMAIN bqm.quadratic)

\* BinaryQuadraticModel::to_qubo: the quadratic biases and, on the diagonal,
\* every linear bias
bqm_to_qubo(bqm) ==
    [Q |-> [k \in (DOMAIN bqm.quadratic) \cup {<<v, v>> : v \in DOMAIN bqm.linear} |->
               IF k[1] = k[2] /\ k[1] \in DOMAIN bqm.linear THEN bqm.linear[k[1]]
               ELSE bqm.quadratic[k]],
     offset |-> bqm.offset]

\* m[key] of a std::unordered_map in an arithmetic update: an absent key is
\* created with the value 0
bias_at(m, key) == IF key \in DOMAIN m THEN m[key] ELSE 0

\* the sum of the quadratic biases that a loop over quadratic adds to the
\* linear bias of v: once for every end of an interaction that is v
ends_at(quadratic, v) ==
    SumOver([k \in DOMAIN quadratic |->
                (IF k[1] = v THEN quadratic[k] ELSE 0) + (IF k[2] = v THEN quadratic[k] ELSE 0)],
            DOMAIN quadratic)

sum_of(m) == SumOver(m, DOMAIN m)

\* BinaryQuadraticModel::spin_to_binary
spin_to_binary(linear, quadratic, offset) ==
    LET vs == (DOMAIN linear) \cup UNION {{k[1], k[2]} : k \in DOMAIN quadratic}
    IN [linear |-> [v \in vs |-> (IF v \in DOMAIN linear THEN 2 * linear[v] ELSE 0)
                                    - 2 * ends_at(quadratic, v)],
        quadratic |-> [k \in DOMAIN quadratic |-> 4 * quadratic[k]],
        offset |-> offset + (sum_of(quadratic) - sum_of(linear))]

\* 0.5 * x and 0.25 * x of doubles; the biases that reach them in this model
\* are multiples of 4, for which the quotients are exact
half(x) == x \div 2

quarter(x) == x \div 4

\* BinaryQuadraticModel::binary_to_spin
bqm_binary_to_spin(linear, quadratic, offset) ==
    LET vs == (DOMAIN linear) \cup UNION {{k[1], k[2]} : k \in DOMAIN quadratic}
        quarters == [k \in DOMAIN quadratic |-> quarter(quadratic[k])]
    IN [linear |-> [v \in vs |-> (IF v \in DOMAIN linear THEN half(linear[v]) ELSE 0)
                                    + ends_at(quarters, v)],
        quadratic |-> quarters,
        offset |-> offset + half(sum_of(linear)) + quarter(sum_of(quadratic))]

\* BinaryQuadraticModel::change_vartype of a model whose vartype is m_vartype
change_vartype(bqm, m_vartype, vartype) ==
    IF vartype = m_vartype
    THEN BinaryQuadraticModel(bqm.linear, bqm.quadratic, bqm.offset)
    ELSE LET t == IF m_vartype = "BINARY"
                  THEN bqm_binary_to_spin(bqm.linear, bqm.quadratic, bqm.offset)
                  ELSE spin_to_binary(bqm.linear, bqm.quadratic, bqm.offset)
         IN BinaryQuadraticModel(t.linear, t.quadratic, t.offset)

\* BinaryQuadraticModel::to_qubo and to_ising
to_qubo(bqm, m_vartype) == bqm_to_qubo(change_vartype(bqm, m_vartype, "BINARY"))

to_ising(bqm, m_vartype) == change_vartype(bqm, m_vartype, "SPIN")

\* the binary model that a QUBO stands for: its diagonal is the linear biases
qubo_model(qubo) ==
    LET diagonal == {k \in DOMAIN qubo.Q : k[1] = k[2]}
    IN BinaryQuadraticModel([v \in {k[1] : k \in diagonal} |-> qubo.Q[<<v, v>>]],
                            [k \in (DOMAIN qubo.Q) \ diagonal |-> qubo.Q[k]],
                            qubo.offset)

\* ------------------------------------------------------------------------
\* Model of the base pipeline (model.h, compiled_qubo.h, decoded_solution.h)
\* ------------------------------------------------------------------------
\* Model::build_sub_hs_vector: the first sub-Hamiltonian of every label
RECURSIVE build_sub_hs_vector(_, _, _, _)
build_sub_hs_vector(compiled_sub_hs, i, labels, subhs_vector) ==
    IF i > Len(compiled_sub_hs) THEN subhs_vector
    ELSE IF compiled_sub_hs[i].label \notin labels
    THEN build_sub_hs_vector(compiled_sub_hs, i + 1, labels \cup {compiled_sub_hs[i].label},
                             Append(subhs_vector, compiled_sub_hs[i]))
    ELSE build_sub_hs_vector(compiled_sub_hs, i + 1, labels, subhs_vector)

Model(compiled_qubo, encoder, expanded) ==
    [compiled_qubo |-> compiled_qubo, encoder |-> Encoder_copy(encoder),
     compiled_sub_hs |-> build_sub_hs_vector(expanded.sub_hs, 1, {}, << >>)]

\* CompiledQubo::evaluate: the exceptions its loop can leave with.  A term of
\* length above 2 throws before its coefficient is read; the first failing
\* term in the order of the term vector decides.
CompiledQubo_evaluate_errors(terms, feed_dict) ==
    {"std::runtime_error" : prod \in {p \in DOMAIN terms : Len(p) > 2}}
    \cup {"std::out_of_range" :
            prod \in {p \in DOMAIN terms : Len(p) <= 2 /\ PHPoly_throws(terms[p], feed_dict)}}

\* CompiledQubo::evaluate when no term throws
CompiledQubo_evaluate(terms, feed_dict, encoder) ==
    LET ones == {p \in DOMAIN terms : Len(p) = 1}
        twos == {p \in DOMAIN terms : Len(p) = 2}
        linear == [l \in {Encoder_decode(encoder, p[1] - 1) : p \in ones} |->
                     LET p == CHOOSE p \in ones : Encoder_decode(encoder, p[1] - 1) = l
                     IN PHPoly_evaluate(terms[p], feed_dict)]
        key(p) == <<Encoder_decode(encoder, p[1] - 1), Encoder_decode(encoder, p[2] - 1)>>
        quadratic == [k \in {key(p) : p \in twos} |->
                        LET p == CHOOSE p \in twos : key(p) = k
                        IN PHPoly_evaluate(terms[p], feed_dict)]
        offset == IF << >> \in DOMAIN terms THEN PHPoly_evaluate(terms[<< >>], feed_dict)
                  ELSE 0
    IN BinaryQuadraticModel(linear, quadratic, offset)

\* CompiledQubo::evaluate_energy: the exceptions of its loop
evaluate_energy_errors(terms, sample, feed_dict, encoder) ==
    {"std::runtime_error" :
        prod \in {p \in DOMAIN terms :
                    \E i \in DOMAIN p : Encoder_decode(encoder, p[i] - 1) \notin DOMAIN sample}}
    \cup {"std::out_of_range" :
            prod \in {p \in DOMAIN terms : PHPoly_throws(terms[p], feed_dict)}}

RECURSIVE prod_value(_, _, _, _)
prod_value(prod, i, sample, encoder) ==
    IF i > Len(prod) THEN 1
    ELSE sample[Encoder_decode(encoder, prod[i] - 1)] * prod_value(prod, i + 1, sample, encoder)

evaluate_energy(terms, sample, feed_dict, encoder) ==
    SumOver([p \in DOMAIN terms |->
                prod_value(p, 1, sample, encoder) * PHPoly_evaluate(terms[p], feed_dict)],
            DOMAIN terms)

\* Model::check_variable(Sample<string>&) throws std::invalid_argument
check_variable_throws(encoder, sample) ==
    \E var \in Range(encoder.variables) : var \notin DOMAIN sample

\* DecodedSubH
DecodedSubH(compiled_sub_h, sample, feed_dict, encoder) ==
    LET energy == evaluate_energy(compiled_sub_h.compiled_qubo, sample, feed_dict, encoder)
    IN [label |-> compiled_sub_h.label, energy |-> energy,
        is_constraint |-> compiled_sub_h.condition # "nullptr",
        satisfied |-> IF compiled_sub_h.condition # "nullptr"
                      THEN condition_holds(compiled_sub_h.condition, energy)
                      ELSE FALSE]

\* DecodedSolution::build_subh_values over the decoded sub-Hamiltonians
build_subh_values(decoded_subhs) ==
    [l \in {decoded_subhs[i].label : i \in DOMAIN decoded_subhs} |->
        decoded_subhs[CHOOSE i \in DOMAIN decoded_subhs :
                         /\ decoded_subhs[i].label = l
                         /\ \A j \in DOMAIN decoded_subhs :
                               decoded_subhs[j].label = l => j <= i].energy]

\* DecodedSolution::build_constraints
build_constraints(decoded_subhs) ==
    LET cs == {i \in DOMAIN decoded_subhs : decoded_subhs[i].is_constraint}
    IN [l \in {decoded_subhs[i].label : i \in cs} |->
          LET i == CHOOSE i \in cs :
                      /\ decoded_subhs[i].label = l
                      /\ \A j \in cs : decoded_subhs[j].label = l => j <= i
          IN <<decoded_subhs[i].satisfied, decoded_subhs[i].energy>>]

\* ------------------------------------------------------------------------
\* model of the hpp pipeline (model.hpp)
\* ------------------------------------------------------------------------
model(quadratic_polynomial, sub_hamiltonians, constraints, variables) ==
    [quadratic_polynomial |-> quadratic_polynomial, sub_hamiltonians |-> sub_hamiltonians,
     constraints |-> constraints, variables |-> variables]

\* to_bqm_parameters without the default branch of its switch: a term of
\* size above 2 is passed over
to_bqm_parameters_errors_without_default(polynomial, feed_dict) ==
    {"std::invalid_argument" :
        product \in {p \in DOMAIN polynomial : evaluate_throws(polynomial[p], feed_dict)}}

\* to_bqm_parameters: the exceptions its loop can leave with.  A coefficient
\* is evaluated before the size of its product is looked at; the first
\* failing term in the order of the map decides.
to_bqm_parameters_errors(polynomial, feed_dict) ==
    {"std::invalid_argument" :
        product \in {p \in DOMAIN polynomial : evaluate_throws(polynomial[p], feed_dict)}}
    \cup {"std::runtime_error" :
            product \in {p \in DOMAIN polynomial :
                            Len(p) > 2 /\ ~evaluate_throws(polynomial[p], feed_dict)}}

\* to_bqm_parameters when no term throws, and to_bqm over its result
to_bqm_parameters(m, feed_dict) ==
    LET polynomial == m.quadratic_polynomial
        ones == {p \in DOMAIN polynomial : Len(p) = 1}
        twos == {p \in DOMAIN polynomial : Len(p) = 2}
        key(p) == <<variables_name(m.variables, p[1]), variables_name(m.variables, p[2])>>
    IN [linear |-> [l \in {variables_name(m.variables, p[1]) : p \in ones} |->
                      LET p == CHOOSE p \in ones : variables_name(m.variables, p[1]) = l
                      IN evaluate(polynomial[p], feed_dict)],
        quadratic |-> [k \in {key(p) : p \in twos} |->
                         LET p == CHOOSE p \in twos : key(p) = k
                         IN evaluate(polynomial[p], feed_dict)],
        offset |-> IF << >> \in DOMAIN polynomial THEN evaluate(polynomial[<< >>], feed_dict)
                   ELSE 0]

to_bqm(m, feed_dict) ==
    LET parameters == to_bqm_parameters(m, feed_dict)
    IN BinaryQuadraticModel(parameters.linear, parameters.quadratic, parameters.offset)

\* to_qubo_string: a linear term goes to the diagonal, and a term whose
\* coefficient evaluates to 0 is left out
to_qubo_string(m, feed_dict) ==
    LET polynomial == m.quadratic_polynomial
        kept == {p \in DOMAIN polynomial :
                    Len(p) \in {1, 2} /\ evaluate(polynomial[p], feed_dict) # 0}
        key(p) == <<variables_name(m.variables, p[1]), variables_name(m.variables, p[Len(p)])>>
    IN [Q |-> [k \in {key(p) : p \in kept} |->
                 LET p == CHOOSE p \in kept : key(p) = k
                 IN evaluate(polynomial[p], feed_dict)],
        offset |-> IF << >> \in DOMAIN polynomial THEN evaluate(polynomial[<< >>], feed_dict)
                   ELSE 0]

\* the terms get_terms() hands to evaluate_polynomial
poly_get_terms(p) == poly_to_multi(p).terms

\* evaluate_polynomial of decode_sample: the exceptions of its accumulate
evaluate_polynomial_errors(m, polynomial, sample, feed_dict) ==
    {"std::out_of_range" :
        product \in {p \in DOMAIN polynomial :
                        \E i \in DOMAIN p : variables_name(m.variables, p[i]) \notin DOMAIN sample}}
    \cup {"std::invalid_argument" :
            product \in {p \in DOMAIN polynomial : evaluate_throws(polynomial[p], feed_dict)}}

RECURSIVE indexes_value(_, _, _, _)
indexes_value(m, indexes, i, sample) ==
    IF i > Len(indexes) THEN 1
    ELSE sample[variables_name(m.variables, indexes[i])] * indexes_value(m, indexes, i + 1, sample)

evaluate_polynomial(m, polynomial, sample, feed_dict) ==
    SumOver([p \in DOMAIN polynomial |->
                indexes_value(m, p, 1, sample) * evaluate(polynomial[p], feed_dict)],
            DOMAIN polynomial)

\* the exceptions the two map-building lambdas of decode_sample can throw
decode_maps_errors(m, sample, feed_dict) ==
    UNION ({evaluate_polynomial_errors(m, poly_get_terms(m.sub_hamiltonians[name]),
                                       sample, feed_dict)
              : name \in DOMAIN m.sub_hamiltonians}
           \cup {evaluate_polynomial_errors(m, poly_get_terms(m.constraints[name].polynomial),
                                            sample, feed_dict)
                   : name \in DOMAIN m.constraints})

\* ------------------------------------------------------------------------
\* Inputs
\* ------------------------------------------------------------------------
VarNames == <<"a", "b", "c", "d", "e">>

\* the monomial over the variables whose positions are the set bits of code,
\* built left to right with Base::mul
RECURSIVE MonomialFrom(_, _, _)
MonomialFrom(code, i, acc) ==
    IF i > MaxVars THEN acc
    ELSE IF (code \div (2 ^ (i - 1))) % 2 = 1
    THEN MonomialFrom(code, i + 1,
                      IF acc.type = "none" THEN Binary(VarNames[i])
                      ELSE Base_mul(acc, Binary(VarNames[i])))
    ELSE MonomialFrom(code, i + 1, acc)

Monomial(code) == MonomialFrom(code, 1, [type |-> "none"])

\* the number of variables of the monomial of a code
RECURSIVE CodeSize(_)
CodeSize(code) == IF code = 0 THEN 0 ELSE (code % 2) + CodeSize(code \div 2)

\* the monomials the order reduction has to act on: more than two variables
MonomialCodes == {code \in 1 .. (2 ^ MaxVars - 1) : CodeSize(code) > 2}

\* the sum of the monomials of an increasing sequence of codes, built left to
\* right with Base::add
RECURSIVE SumFrom(_, _, _)
SumFrom(codes, i, acc) ==
    IF i > Len(codes) THEN acc
    ELSE SumFrom(codes, i + 1, Base_add(acc, Monomial(codes[i])))

SumOfMonomials(codes) == SumFrom(codes, 2, Monomial(codes[1]))

IncreasingCodes(n) ==
    {codes \in [1 .. n -> MonomialCodes] : \A i \in 1 .. (n - 1) : codes[i] < codes[i + 1]}

\* sums of such monomials: the inputs of the order reduction
ReducerExprs ==
    {SumOfMonomials(codes) : codes \in UNION {IncreasingCodes(n) : n \in 1 .. MaxAddends}}

Va == Binary("a")
Vb == Binary("b")
Vc == Binary("c")
Vd == Binary("d")
Pk == Placeholder("k")
Wp == WithPenalty(Va, Vb, "p")

\* expressions with placeholders, sub-Hamiltonians, constraints and penalties
AnnotatedExprs ==
    { Wp,
      Base_add(Va, Vb),
      Base_add(Wp, Wp),
      Base_mul(Wp, Wp),
      Base_add(Wp, WithPenalty(Vc, Base_mul(Va, Vc), "q")),
      WithPenalty(Va, WithPenalty(Vb, Vc, "q"), "p"),
      WithPenalty(WithPenalty(Va, Vc, "q"), Vb, "p"),
      WithPenalty(Base_mul(Base_mul(Va, Vb), Vc), Base_mul(Va, Vb), "p"),
      Base_add(SubH(Base_add(Va, Vb), "const_1"), SubH(Base_add(Vb, Vc), "const_2")),
      SubH(Base_mul(Va, Vb), "s1"),
      SubH(Base_mul(Base_mul(Va, Vb), Vc), "s1"),
      Base_mul(SubH(Base_add(Va, Vb), "s1"), Vc),
      Base_add(SubH(Va, "s1"), SubH(Va, "s1")),
      SubH(Base_mul(Pk, Va), "s1"),
      SubH(WithPenalty(Va, Vb, "p"), "s1"),
      WithPenalty(Va, SubH(Vb, "s1"), "p"),
      WithPenalty(SubH(Va, "s1"), Vb, "p"),
      SubH(WithPenalty(SubH(Va, "s1"), Vb, "p"), "s2"),
      Base_add(WithPenalty(SubH(Va, "s1"), Vb, "p"), SubH(Vc, "s2")),
      Constraint(Base_add(Va, Vb), "c1", "eq0"),
      Constraint(Base_add(Base_mul(Va, Vb), Vc), "c1", "le1"),
      Constraint(Base_mul(Base_mul(Va, Vb), Vc), "c1", "eq0"),
      Base_add(Constraint(Base_add(Va, Vb), "c1", "le1"), SubH(Base_mul(Vb, Vc), "s1")),
      Base_mul(Constraint(Base_add(Va, Num(-1)), "c1", "eq0"), Base_add(Vb, Num(2))),
      Base_mul(Pk, Va),
      Base_add(Base_mul(Pk, Base_mul(Va, Vb)), Base_mul(Num(3), Vc)),
      Base_mul(Base_mul(Pk, Va), Base_mul(Vb, Vc)),
      Base_add(Base_mul(Base_add(Pk, Num(1)), Va), Num(4)),
      Base_mul(Base_add(Va, Vb), Base_add(Vb, Vc)),
      Base_add(Base_add(Base_mul(Base_mul(Va, Vb), Vc), Base_mul(Va, Vb)), Vc),
      Base_add(Base_mul(Base_mul(Va, Vb), Vc), Base_mul(Num(-2), Base_mul(Vb, Vc))),
      Base_add(Base_mul(Base_mul(Va, Vb), Vc), Base_mul(Base_mul(Va, Vb), Vd)),
      Base_add(Base_mul(Base_mul(Va, Vb), Vc), Base_mul(Base_mul(Vb, Vc), Vd)),
      Base_add(Base_mul(Base_mul(Va, Vb), Vc),
               Base_add(Base_mul(Base_mul(Va, Vb), Vd), Base_mul(Va, Vd))),
      Base_add(Base_add(Base_mul(Base_mul(Va, Vb), Vc), Base_mul(Va, Vb)),
               Base_mul(Base_mul(Base_mul(Base_mul(Va, Vb), Vc), Vd), Binary("e"))),
      Base_add(Base_mul(Base_mul(Va, Vb), Vc), Binary("0*1")),
      Base_add(Base_mul(Base_mul(Va, Vb), Vc), Binary("a * b")),
      Base_mul(Base_mul(Base_add(Base_add(Va, Vb), Num(2)), Base_add(Base_add(Va, Vb), Num(2))),
               Placeholder("e")),
      Spin("a"),
      Base_mul(Spin("a"), Spin("b")),
      Base_add(Base_mul(Num(3), Spin("a")), Base_mul(Spin("a"), Spin("b"))),
      Base_add(Base_mul(Pk, Spin("a")), Spin("b")),
      Num(7) }

Exprs == ReducerExprs \cup AnnotatedExprs

StrengthValues == {2}

\* the placeholders that occur in an expression
RECURSIVE PlaceholdersIn(_)
PlaceholdersIn(e) ==
    CASE e.type = "Placeholder" -> {e.label}
      [] e.type \in {"Binary", "Spin", "Num"} -> {}
      [] e.type = "Add" -> UNION {PlaceholdersIn(e.children[i]) : i \in DOMAIN e.children}
      [] e.type = "Mul" -> PlaceholdersIn(e.left) \cup PlaceholdersIn(e.right)
      [] e.type = "WithPenalty" -> PlaceholdersIn(e.hamiltonian) \cup PlaceholdersIn(e.penalty)
      [] e.type \in {"SubH", "Constraint"} -> PlaceholdersIn(e.hamiltonian)

\* placeholder bindings for an expression: none, and a value for each of its
\* placeholders
FeedValue(l) == IF l = "e" THEN 2 ELSE 3

FeedDictsFor(e) == {[l \in {} |-> 0], [l \in PlaceholdersIn(e) |-> FeedValue(l)]}

\* the binary assignments of the indexes 0 .. n - 1 in which every auxiliary
\* index equals the product of the pair it replaced; aux holds a triple
\* <<index, i, j>> per auxiliary variable
RECURSIVE ExtendFrom(_, _, _, _)
ExtendFrom(val, k, n, auxs) ==
    IF k >= n THEN val
    ELSE LET defs == {t \in auxs : t[1] = k}
         IN IF defs = {} THEN ExtendFrom(val, k + 1, n, auxs)
            ELSE LET t == CHOOSE t \in defs : TRUE
                 IN ExtendFrom([val EXCEPT ![k] = val[t[2]] * val[t[3]]], k + 1, n, auxs)

Assignments(n, auxs) ==
    LET users == {k \in 0 .. (n - 1) : \A t \in auxs : t[1] # k}
    IN {ExtendFrom([k \in 0 .. (n - 1) |-> IF k \in users THEN b[k] ELSE 0], 0, n, auxs)
          : b \in [users -> {0, 1}]}

\* the samples over the labels names[1 .. n] of such assignments
SamplesOf(names, auxs) ==
    {[l \in Range(names) |-> val[(CHOOSE i \in DOMAIN names : names[i] = l) - 1]]
        : val \in Assignments(Len(names), auxs)}

NoSample == [l \in {} |-> 0]

NoBqm == [linear |-> << >>, quadratic |-> << >>, offset |-> 0]

NoQubo == [Q |-> << >>, offset |-> 0]

\* what an evaluation left behind: the status is "ok" or the name of the
\* exception or signal it ended with, and a failed call has returned nothing
Outcome(op, feed_dict, sample, status) ==
    [op |-> op, feed_dict |-> feed_dict, sample |-> sample, status |-> status,
     bqm |-> NoBqm, qubo |-> NoQubo, energy |-> 0,
     subh_values |-> << >>, constraints |-> << >>,
     given |-> << >>, samples |-> << >>, solutions |-> << >>,
     other |-> [type |-> "none"], equal |-> FALSE,
     exponent |-> 0, returned |-> [type |-> "none"], vartype |-> "BINARY",
     ising |-> NoBqm, lhs |-> << >>, rhs |-> << >>, out |-> << >>]

NoResult == Outcome("none", << >>, NoSample, "none")

\* where a run is after an evaluation call: returned to the caller (with a
\* value or an exception), or ended by std::terminate
after_call(status) == IF status = "std::terminate" THEN "std::terminate" ELSE "returned"

VARIABLES expr, strength, impl, pc, symbols, expansion, input_terms, mp, iters, aux,
          compiled, result

vars == <<expr, strength, impl, pc, symbols, expansion, input_terms, mp, iters, aux,
          compiled, result>>

Init ==
    /\ expr \in Exprs
    /\ strength \in StrengthValues
    /\ impl = "none"
    /\ pc = "start"
    /\ symbols = Encoder_new
    /\ expansion = Crashed
    /\ input_terms = Terms_empty
    /\ mp = Terms_empty
    /\ iters = 0
    /\ aux = {}
    /\ compiled = << >>
    /\ result = NoResult

\* ---- Base::compile (express.cpp) --------------------------------------
\* expand, then the penalty merge that opens Expanded::get_compiled_qubo
BaseCompileExpand ==
    /\ pc = "start"
    /\ LET r == Base_expand(expr, Encoder_new)
       IN /\ ~r.exp.crashed
          /\ expansion' = r.exp
          /\ symbols' = r.enc
          /\ input_terms' = merge_penalties(get_terms(r.exp.poly), r.exp.penalties, 1, {})
          /\ mp' = input_terms'
    /\ impl' = "base"
    /\ pc' = "make_quadratic"
    /\ UNCHANGED <<expr, strength, iters, aux, compiled, result>>

\* expand dereferences a null last pointer of a linked list
BaseCompileCrash ==
    /\ pc = "start"
    /\ Base_expand(expr, Encoder_new).exp.crashed
    /\ impl' = "base"
    /\ pc' = "SIGSEGV"
    /\ UNCHANGED <<expr, strength, symbols, expansion, input_terms, mp, iters, aux,
                   compiled, result>>

\* one iteration of the while loop of reduce_order::make_quadratic
MakeQuadraticStep ==
    /\ pc = "make_quadratic"
    /\ has_higher_degree(mp)
    /\ iters < MaxIters
    /\ LET index_pair == find_most_common(mp)
           new_label == create_new_var_label(index_pair)
           new_var == Encoder_encoded(symbols, new_label)
       IN /\ symbols' = Encoder_encode(symbols, new_label)
          /\ aux' = aux \cup {<<new_var, index_pair[1], index_pair[2]>>}
          /\ \E replaced \in replace_variable(mp, index_pair, new_var) :
                IF add_and_constraint_throws(index_pair, new_var)
                THEN mp' = replaced /\ pc' = "std::runtime_error"
                ELSE /\ mp' = add_and_constraint(replaced, index_pair, new_var,
                                                 CoeffNum(strength))
                     /\ pc' = "make_quadratic"
    /\ iters' = iters + 1
    /\ UNCHANGED <<expr, strength, impl, expansion, input_terms, compiled, result>>

\* the loop has ended: compile_coeff, then the Model constructor
BaseCompileFinish ==
    /\ pc = "make_quadratic"
    /\ ~has_higher_degree(mp)
    /\ compiled' = Model(compile_coeff(mp), symbols, expansion)
    /\ pc' = "compiled"
    /\ UNCHANGED <<expr, strength, impl, symbols, expansion, input_terms, mp, iters, aux,
                   result>>

\* ---- compile (compiler2.hpp) with the expand of compiler.hpp -----------
HppCompile ==
    /\ pc = "start"
    /\ LET r == compiler_expand(expr)
       IN /\ expansion' = r
          /\ symbols' = r.variables
          /\ input_terms' = poly_get_terms(r.polynomial)
          /\ mp' = input_terms'
          /\ compiled' = model(poly_get_terms(r.polynomial), r.sub_hamiltonians,
                               r.constraints, r.variables)
    /\ impl' = "compile"
    /\ pc' = "compiled"
    /\ UNCHANGED <<expr, strength, iters, aux, result>>

\* ---- expand, convert_to_quadratic (expand.hpp), model (model.hpp) ------
HppExpand ==
    /\ pc = "start"
    /\ LET r == expand_expand(expr)
       IN /\ expansion' = r
          /\ symbols' = r.variables
          /\ input_terms' = poly_get_terms(r.polynomial)
          /\ mp' = input_terms'
    /\ impl' = "expand"
    /\ pc' = "convert_to_quadratic"
    /\ UNCHANGED <<expr, strength, iters, aux, compiled, result>>

\* one iteration of the outer loop of convert_to_quadratic
ConvertToQuadraticStep ==
    /\ pc = "convert_to_quadratic"
    /\ replacing_keys(mp) # {}
    /\ iters < MaxIters
    /\ LET replacing_pair == find_replacing_pair(mp)
           name == replacing_pair_name(symbols, replacing_pair)
           replacing_pair_index == variables_index(symbols, name)
       IN /\ symbols' = variables_after_index(symbols, name)
          /\ aux' = aux \cup {<<replacing_pair_index, replacing_pair[1], replacing_pair[2]>>}
          /\ mp' = emplace_terms(replace_loop(mp, replacing_pair, replacing_pair_index),
                                 replacing_pair, replacing_pair_index, Num(strength))
    /\ iters' = iters + 1
    /\ UNCHANGED <<expr, strength, impl, pc, expansion, input_terms, compiled, result>>

\* no replacing pair is left: the result goes to the model constructor
HppModel ==
    /\ pc = "convert_to_quadratic"
    /\ replacing_keys(mp) = {}
    /\ compiled' = model(mp, expansion.sub_hamiltonians, expansion.constraints, symbols)
    /\ pc' = "compiled"
    /\ UNCHANGED <<expr, strength, impl, symbols, expansion, input_terms, mp, iters, aux,
                   result>>

\* the quotient of two ints in C++: truncated towards zero
int_div(a, b) == IF a >= 0 THEN a \div b ELSE -((-a) \div b)

\* a sample handed on as it was given
binary_to_spin_unconverted(sample) == sample

\* utils::binary_to_spin: every value v of the sample becomes (v + 1) / 2
binary_to_spin(sample) == [l \in DOMAIN sample |-> int_div(sample[l] + 1, 2)]

Vartypes == {"BINARY", "SPIN"}

\* the samples that give every variable a spin value
SpinSamples(names) == [Range(names) -> {-1, 1}]

\* ---- evaluation of a base Model (model.h) --------------------------------
\* the samples over names that lack one label, every other variable being 1
LackingSamples(names) == {[l \in Range(names) \ {m} |-> 1] : m \in Range(names)}

BaseSamples ==
    SamplesOf(compiled.encoder.variables, aux) \cup LackingSamples(compiled.encoder.variables)

\* Model::to_bqm
BaseToBqm ==
    /\ pc = "compiled" /\ impl = "base"
    /\ \E feed_dict \in FeedDictsFor(expr) :
          LET errors == CompiledQubo_evaluate_errors(compiled.compiled_qubo, feed_dict)
          IN IF errors # {}
             THEN \E status \in errors : result' = Outcome("to_bqm", feed_dict, NoSample, status)
             ELSE result' = [Outcome("to_bqm", feed_dict, NoSample, "ok") EXCEPT
                                !.bqm = CompiledQubo_evaluate(compiled.compiled_qubo, feed_dict,
                                                              compiled.encoder)]
    /\ pc' = "returned"
    /\ UNCHANGED <<expr, strength, impl, symbols, expansion, input_terms, mp, iters, aux,
                   compiled>>

\* Model::to_qubo
BaseToQubo ==
    /\ pc = "compiled" /\ impl = "base"
    /\ \E feed_dict \in FeedDictsFor(expr) :
          LET errors == CompiledQubo_evaluate_errors(compiled.compiled_qubo, feed_dict)
          IN IF errors # {}
             THEN \E status \in errors : result' = Outcome("to_qubo", feed_dict, NoSample, status)
             ELSE result' = [Outcome("to_qubo", feed_dict, NoSample, "ok") EXCEPT
                                !.qubo = bqm_to_qubo(CompiledQubo_evaluate(
                                            compiled.compiled_qubo, feed_dict, compiled.encoder))]
    /\ pc' = "returned"
    /\ UNCHANGED <<expr, strength, impl, symbols, expansion, input_terms, mp, iters, aux,
                   compiled>>

\* Model::energy
BaseEnergy ==
    /\ pc = "compiled" /\ impl = "base"
    /\ \E feed_dict \in FeedDictsFor(expr), vartype \in Vartypes :
       \E sample \in IF vartype = "BINARY" THEN BaseSamples
                     ELSE SpinSamples(compiled.encoder.variables) :
          LET errors == CompiledQubo_evaluate_errors(compiled.compiled_qubo, feed_dict)
              bin_sample == IF vartype = "BINARY" THEN sample ELSE binary_to_spin(sample)
          IN IF errors # {}
             THEN \E status \in errors :
                     result' = [Outcome("energy", feed_dict, sample, status)
                                   EXCEPT !.vartype = vartype]
             ELSE result' = [Outcome("energy", feed_dict, sample, "ok") EXCEPT
                                !.vartype = vartype,
                                !.energy = bqm_energy(CompiledQubo_evaluate(
                                              compiled.compiled_qubo, feed_dict,
                                              compiled.encoder), bin_sample)]
    /\ pc' = "returned"
    /\ UNCHANGED <<expr, strength, impl, symbols, expansion, input_terms, mp, iters, aux,
                   compiled>>

\* the exceptions of the DecodedSolution constructor
DecodedSolution_errors(compiled_sub_hs, sample, feed_dict, encoder) ==
    UNION {evaluate_energy_errors(compiled_sub_hs[i].compiled_qubo, sample, feed_dict, encoder)
             : i \in DOMAIN compiled_sub_hs}

\* Model::decode_sample: to_bqm, check_variable, bqm.energy, DecodedSolution;
\* the results the call can end with
decode_sample(op, feed_dict, sample) ==
    LET errors == CompiledQubo_evaluate_errors(compiled.compiled_qubo, feed_dict)
        sub_errors == DecodedSolution_errors(compiled.compiled_sub_hs, sample, feed_dict,
                                             compiled.encoder)
        decoded_subhs == [i \in DOMAIN compiled.compiled_sub_hs |->
                            DecodedSubH(compiled.compiled_sub_hs[i], sample, feed_dict,
                                        compiled.encoder)]
    IN IF errors # {}
       THEN {Outcome(op, feed_dict, sample, status) : status \in errors}
       ELSE IF check_variable_throws(compiled.encoder, sample)
       THEN {Outcome(op, feed_dict, sample, "std::invalid_argument")}
       ELSE IF sub_errors # {}
       THEN {Outcome(op, feed_dict, sample, status) : status \in sub_errors}
       ELSE {[Outcome(op, feed_dict, sample, "ok") EXCEPT
                 !.energy = bqm_energy(CompiledQubo_evaluate(
                               compiled.compiled_qubo, feed_dict, compiled.encoder), sample),
                 !.subh_values = build_subh_values(decoded_subhs),
                 !.constraints = build_constraints(decoded_subhs)]}

BaseDecodeSample ==
    /\ pc = "compiled" /\ impl = "base"
    /\ \E feed_dict \in FeedDictsFor(expr), sample \in BaseSamples :
          result' \in decode_sample("decode_sample", feed_dict, sample)
    /\ pc' = "returned"
    /\ UNCHANGED <<expr, strength, impl, symbols, expansion, input_terms, mp, iters, aux,
                   compiled>>

\* the sample sequences given to decode_samples: none, or a sample followed
\* by one of a few
SampleSeqs(samples, seconds) == {<< >>} \cup {<<s, t>> : s \in samples, t \in seconds}

\* one solution of a sequence of solutions
Solution(energy, subh_values, constraints) ==
    [energy |-> energy, subh_values |-> subh_values, constraints |-> constraints]

\* Model::decode_samples: to_bqm once, then bqm.energy and DecodedSolution for
\* every sample in order; the results the call can end with
decode_samples(feed_dict, samples) ==
    LET errors == CompiledQubo_evaluate_errors(compiled.compiled_qubo, feed_dict)
        sub_errors(i) == DecodedSolution_errors(compiled.compiled_sub_hs, samples[i],
                                                feed_dict, compiled.encoder)
        failing == {i \in DOMAIN samples : sub_errors(i) # {}}
        first == CHOOSE i \in failing : \A j \in failing : i <= j
        decoded_subhs(i) == [k \in DOMAIN compiled.compiled_sub_hs |->
                               DecodedSubH(compiled.compiled_sub_hs[k], samples[i], feed_dict,
                                           compiled.encoder)]
        out(status) == [Outcome("decode_samples", feed_dict, NoSample, status) EXCEPT
                           !.samples = samples]
    IN IF errors # {} THEN {out(status) : status \in errors}
       ELSE IF failing # {} THEN {out(status) : status \in sub_errors(first)}
       ELSE {[out("ok") EXCEPT
                 !.solutions =
                     [i \in DOMAIN samples |->
                         Solution(bqm_energy(CompiledQubo_evaluate(
                                      compiled.compiled_qubo, feed_dict, compiled.encoder),
                                      samples[i]),
                                  build_subh_values(decoded_subhs(i)),
                                  build_constraints(decoded_subhs(i)))]]}

BaseDecodeSamples ==
    /\ pc = "compiled" /\ impl = "base"
    /\ \E feed_dict \in FeedDictsFor(expr),
          samples \in SampleSeqs(BaseSamples,
                                 LackingSamples(compiled.encoder.variables)
                                    \cup {[l \in Range(compiled.encoder.variables) |-> 0]}) :
          result' \in decode_samples(feed_dict, samples)
    /\ pc' = "returned"
    /\ UNCHANGED <<expr, strength, impl, symbols, expansion, input_terms, mp, iters, aux,
                   compiled>>

\* the index-keyed samples given to a model of n variables: every index, an
\* index outside 0 .. n - 1 among them, and the last index lacking
IndexSamples(n) ==
    {[i \in 0 .. (n - 1) |-> 1], [i \in 0 .. n |-> 1], [i \in 0 .. (n - 2) |-> 1]}

\* Model::check_variable(Sample<uint32_t>&) throws std::out_of_range
check_variable_index_throws(encoder, sample) ==
    \E index \in DOMAIN sample : index < 0 \/ index >= Len(encoder.variables)

\* Model::convert_sample_index_to_label
convert_sample_index_to_label(encoder, sample) ==
    [l \in {Encoder_decode(encoder, index) : index \in DOMAIN sample} |->
        sample[Encoder_index(encoder, l)]]

\* Model::decode_sample_with_index
BaseDecodeSampleWithIndex ==
    /\ pc = "compiled" /\ impl = "base"
    /\ \E feed_dict \in FeedDictsFor(expr),
          given \in IndexSamples(Len(compiled.encoder.variables)) :
          IF check_variable_index_throws(compiled.encoder, given)
          THEN result' = [Outcome("decode_sample_with_index", feed_dict, NoSample,
                                  "std::out_of_range") EXCEPT !.given = given]
          ELSE \E r \in decode_sample("decode_sample_with_index", feed_dict,
                                      convert_sample_index_to_label(compiled.encoder, given)) :
                  result' = [r EXCEPT !.given = given]
    /\ pc' = "returned"
    /\ UNCHANGED <<expr, strength, impl, symbols, expansion, input_terms, mp, iters, aux,
                   compiled>>

\* ---- evaluation of an hpp model (model.hpp) ----------------------------
HppSamples == SamplesOf(variables_names(compiled.variables), aux)

\* model::to_bqm
HppToBqm ==
    /\ pc = "compiled" /\ impl \in {"compile", "expand"}
    /\ \E feed_dict \in FeedDictsFor(expr) :
          LET errors == to_bqm_parameters_errors(compiled.quadratic_polynomial, feed_dict)
          IN IF errors # {}
             THEN \E status \in errors : result' = Outcome("to_bqm", feed_dict, NoSample, status)
             ELSE result' = [Outcome("to_bqm", feed_dict, NoSample, "ok") EXCEPT
                                !.bqm = to_bqm(compiled, feed_dict)]
    /\ pc' = "returned"
    /\ UNCHANGED <<expr, strength, impl, symbols, expansion, input_terms, mp, iters, aux,
                   compiled>>

\* model::to_qubo_string
HppToQubo ==
    /\ pc = "compiled" /\ impl \in {"compile", "expand"}
    /\ \E feed_dict \in FeedDictsFor(expr) :
          LET errors == to_bqm_parameters_errors(compiled.quadratic_polynomial, feed_dict)
          IN IF errors # {}
             THEN \E status \in errors : result' = Outcome("to_qubo", feed_dict, NoSample, status)
             ELSE result' = [Outcome("to_qubo", feed_dict, NoSample, "ok") EXCEPT
                                !.qubo = to_qubo_string(compiled, feed_dict)]
    /\ pc' = "returned"
    /\ UNCHANGED <<expr, strength, impl, symbols, expansion, input_terms, mp, iters, aux,
                   compiled>>

\* model::energy is noexcept: an exception of to_bqm ends in std::terminate
HppEnergy ==
    /\ pc = "compiled" /\ impl \in {"compile", "expand"}
    /\ \E feed_dict \in FeedDictsFor(expr), vartype \in Vartypes :
       \E sample \in IF vartype = "BINARY" THEN HppSamples
                     ELSE SpinSamples(variables_names(compiled.variables)) :
          LET converted == IF vartype = "SPIN"
                           THEN [name \in DOMAIN sample |-> int_div(sample[name] + 1, 2)]
                           ELSE sample
          IN IF to_bqm_parameters_errors(compiled.quadratic_polynomial, feed_dict) # {}
             THEN /\ result' = [Outcome("energy", feed_dict, sample, "std::terminate")
                                   EXCEPT !.vartype = vartype]
                  /\ pc' = after_call("std::terminate")
             ELSE /\ result' = [Outcome("energy", feed_dict, sample, "ok") EXCEPT
                                   !.vartype = vartype,
                                   !.energy = bqm_energy(to_bqm(compiled, feed_dict),
                                                         converted)]
                  /\ pc' = "returned"
    /\ UNCHANGED <<expr, strength, impl, symbols, expansion, input_terms, mp, iters, aux,
                   compiled>>

\* model::decode_sample: the arguments of solution(...) are evaluated in an
\* unspecified order, so a failing energy<T> and a throwing map lambda can
\* each come first; the results the call can end with
model_decode_sample(feed_dict, sample) ==
    LET energy_fails ==
            to_bqm_parameters_errors(compiled.quadratic_polynomial, feed_dict) # {}
        map_errors == decode_maps_errors(compiled, sample, feed_dict)
        statuses == (IF energy_fails THEN {"std::terminate"} ELSE {}) \cup map_errors
    IN IF statuses # {}
       THEN {Outcome("decode_sample", feed_dict, sample, status) : status \in statuses}
       ELSE {[Outcome("decode_sample", feed_dict, sample, "ok") EXCEPT
                 !.energy = bqm_energy(to_bqm(compiled, feed_dict), sample),
                 !.subh_values =
                     [name \in DOMAIN compiled.sub_hamiltonians |->
                         evaluate_polynomial(compiled,
                             poly_get_terms(compiled.sub_hamiltonians[name]),
                             sample, feed_dict)],
                 !.constraints =
                     [name \in DOMAIN compiled.constraints |->
                         LET energy == evaluate_polynomial(compiled,
                                 poly_get_terms(compiled.constraints[name].polynomial),
                                 sample, feed_dict)
                         IN <<condition_holds(compiled.constraints[name].condition,
                                              energy), energy>>]]}

HppDecodeSample ==
    /\ pc = "compiled" /\ impl \in {"compile", "expand"}
    /\ \E feed_dict \in FeedDictsFor(expr), sample \in HppSamples :
          \E r \in model_decode_sample(feed_dict, sample) :
              /\ result' = r
              /\ pc' = after_call(r.status)
    /\ UNCHANGED <<expr, strength, impl, symbols, expansion, input_terms, mp, iters, aux,
                   compiled>>

\* model::decode_samples: std::transform of decode_sample over the samples;
\* the first sample whose decode_sample fails ends the call
RECURSIVE model_decode_samples(_, _, _, _)
model_decode_samples(feed_dict, samples, i, solutions) ==
    LET out(status) == [Outcome("decode_samples", feed_dict, NoSample, status) EXCEPT
                           !.samples = samples]
    IN IF i > Len(samples) THEN {[out("ok") EXCEPT !.solutions = solutions]}
       ELSE UNION {IF r.status # "ok" THEN {out(r.status)}
                   ELSE model_decode_samples(feed_dict, samples, i + 1,
                            Append(solutions,
                                   Solution(r.energy, r.subh_values, r.constraints)))
                     : r \in model_decode_sample(feed_dict, samples[i])}

HppDecodeSamples ==
    /\ pc = "compiled" /\ impl \in {"compile", "expand"}
    /\ \E feed_dict \in FeedDictsFor(expr),
          samples \in SampleSeqs(HppSamples,
                                 {[l \in Range(variables_names(compiled.variables)) |-> v] : v \in {0, 1}}) :
          \E r \in model_decode_samples(feed_dict, samples, 1, << >>) :
              /\ result' = r
              /\ pc' = after_call(r.status)
    /\ UNCHANGED <<expr, strength, impl, symbols, expansion, input_terms, mp, iters, aux,
                   compiled>>

\* ---- the variable tables on their own ------------------------------------
\* the labels handed to a table
TableLabels == {"a", "b", "c"}

\* Encoder::encode(label) on an Encoder
EncoderEncode ==
    /\ \/ pc = "start"
       \/ pc = "table" /\ impl = "encoder"
    /\ \E label \in TableLabels : symbols' = Encoder_encode(symbols, label)
    /\ impl' = "encoder"
    /\ pc' = "table"
    /\ UNCHANGED <<expr, strength, expansion, input_terms, mp, iters, aux, compiled, result>>

\* Encoder(const Encoder&): the table is replaced by a copy of itself
EncoderCopy ==
    /\ pc = "table" /\ impl = "encoder"
    /\ symbols' = Encoder_copy(symbols)
    /\ UNCHANGED <<expr, strength, impl, pc, expansion, input_terms, mp, iters, aux,
                   compiled, result>>

\* variables::index(variable_name) on a variables object
VariablesIndex ==
    /\ \/ pc = "start"
       \/ pc = "table" /\ impl = "variables"
    /\ \E variable_name \in TableLabels :
          symbols' = variables_after_index(IF pc = "start" THEN variables_new ELSE symbols,
                                           variable_name)
    /\ impl' = "variables"
    /\ pc' = "table"
    /\ UNCHANGED <<expr, strength, expansion, input_terms, mp, iters, aux, compiled, result>>

\* ---- construction of expressions ----------------------------------------
\* the expressions added to the expression at hand
AddOperands == {Vd, Pk}

\* expr->add(other): Base::add, or Add::add when expr is an Add
ExprAdd ==
    /\ pc = "start"
    /\ \E other \in AddOperands : expr' = Base_add(expr, other)
    /\ pc' = "built"
    /\ UNCHANGED <<strength, impl, symbols, expansion, input_terms, mp, iters, aux,
                   compiled, result>>

\* the expressions an expression is compared with: itself and nodes that
\* differ from expressions of Exprs in their label or in a child
EqualOperands ==
    {expr, WithPenalty(Va, Vb, "q"), WithPenalty(Va, Vc, "p"),
     SubH(Base_mul(Va, Vb), "s2"), SubH(Va, "s1"),
     Constraint(Base_add(Va, Vb), "c2", "eq0"), Base_add(Vb, Va)}

\* expr->equal_to(other) of express.h
ExprEqualTo ==
    /\ pc = "start"
    /\ \E other \in EqualOperands :
          result' = [Outcome("equal_to", << >>, NoSample, "ok")
                        EXCEPT !.other = other, !.equal = equal_to(expr, other)]
    /\ pc' = "compared"
    /\ UNCHANGED <<expr, strength, impl, symbols, expansion, input_terms, mp, iters, aux,
                   compiled>>

\* expr->equals(other) of abstract_syntax_tree.hpp
ExprEquals ==
    /\ pc = "start"
    /\ \E other \in EqualOperands :
          result' = [Outcome("equals", << >>, NoSample, "ok")
                        EXCEPT !.other = other, !.equal = equals(expr, other)]
    /\ pc' = "compared"
    /\ UNCHANGED <<expr, strength, impl, symbols, expansion, input_terms, mp, iters, aux,
                   compiled>>

\* the exponents handed to pow
Exponents == -1 .. 3

\* expr->pow(other) of express.cpp, bound to __pow__ in pybind_mapping.cpp
BasePow ==
    /\ pc = "start"
    /\ \E other \in Exponents :
          result' = [Outcome("pow", << >>, NoSample, "ok")
                        EXCEPT !.exponent = other, !.returned = Base_pow(expr, expr, 0, other)]
    /\ pc' = "powered"
    /\ UNCHANGED <<expr, strength, impl, symbols, expansion, input_terms, mp, iters, aux,
                   compiled>>

\* the __pow__ binding of main.cpp: a std::runtime_error unless the exponent
\* is positive
HppPow ==
    /\ pc = "start"
    /\ \E expotent \in Exponents :
          result' = IF expotent <= 0
                    THEN [Outcome("__pow__", << >>, NoSample, "std::runtime_error")
                             EXCEPT !.exponent = expotent]
                    ELSE [Outcome("__pow__", << >>, NoSample, "ok")
                             EXCEPT !.exponent = expotent,
                                    !.returned = expression_pow(expr, expr, 1, expotent)]
    /\ pc' = "powered"
    /\ UNCHANGED <<expr, strength, impl, symbols, expansion, input_terms, mp, iters, aux,
                   compiled>>

\* ---- expansion of a square ------------------------------------------------
\* expr->expand and expr->mul(expr)->expand of express.cpp, each with an
\* Encoder of its own: input_terms holds the terms of the first and mp the
\* terms of the second
BaseExpandSquare ==
    /\ pc = "start"
    /\ LET e == Base_expand(expr, Encoder_new)
           e_e == Base_expand(Base_mul(expr, expr), Encoder_new)
       IN IF e.exp.crashed \/ e_e.exp.crashed
          THEN pc' = "SIGSEGV" /\ UNCHANGED <<input_terms, mp, result>>
          ELSE /\ input_terms' = get_terms(e.exp.poly)
               /\ mp' = get_terms(e_e.exp.poly)
               /\ result' = Outcome("Base::expand", << >>, NoSample, "ok")
               /\ pc' = "squared"
    /\ UNCHANGED <<expr, strength, impl, symbols, expansion, iters, aux, compiled>>

\* expand of expand.hpp on expr and on expr * expr
HppExpandSquare ==
    /\ pc = "start"
    /\ input_terms' = poly_get_terms(expand_expand(expr).polynomial)
    /\ mp' = poly_get_terms(expand_expand(expression_times(expr, expr)).polynomial)
    /\ result' = Outcome("expand", << >>, NoSample, "ok")
    /\ pc' = "squared"
    /\ UNCHANGED <<expr, strength, impl, symbols, expansion, iters, aux, compiled>>

\* ---- conversions of a BinaryQuadraticModel (cpp_dimod) -------------------
\* the models the conversions are applied to: spin models with small biases,
\* binary models with biases that are multiples of 4
BqmLinears(unit) == [{"a", "b"} -> {-unit, 2 * unit}] \cup [{"a"} -> {unit}]

BqmQuadratics(unit) ==
    {<< >>} \cup {(<<"a", "b">> :> q) : q \in {unit, -3 * unit}}
            \cup {(<<"a", "b">> :> unit) @@ (<<"b", "c">> :> 2 * unit)}

BqmInputs(vartype) ==
    LET unit == IF vartype = "SPIN" THEN 1 ELSE 4
    IN {BinaryQuadraticModel(linear, quadratic, offset) :
           linear \in BqmLinears(unit), quadratic \in BqmQuadratics(unit),
           offset \in {0, unit}}

BqmToQubo ==
    /\ pc = "start"
    /\ \E vartype \in Vartypes : \E bqm \in BqmInputs(vartype) :
          result' = [Outcome("BinaryQuadraticModel::to_qubo", << >>, NoSample, "ok") EXCEPT
                        !.bqm = bqm, !.vartype = vartype,
                        !.qubo = to_qubo(bqm, vartype)]
    /\ pc' = "to_qubo"
    /\ UNCHANGED <<expr, strength, impl, symbols, expansion, input_terms, mp, iters, aux,
                   compiled>>

\* to_ising of a drawn model, or of the binary model of the QUBO that to_qubo
\* returned
BqmToIsing ==
    /\ \/ /\ pc = "start"
          /\ \E vartype \in Vartypes : \E bqm \in BqmInputs(vartype) :
                result' = [Outcome("BinaryQuadraticModel::to_ising", << >>, NoSample, "ok") EXCEPT
                              !.bqm = bqm, !.vartype = vartype,
                              !.ising = to_ising(bqm, vartype)]
       \/ /\ pc = "to_qubo"
          /\ result' = [result EXCEPT !.op = "BinaryQuadraticModel::to_ising",
                                      !.ising = to_ising(qubo_model(result.qubo), "BINARY")]
    /\ pc' = "to_ising"
    /\ UNCHANGED <<expr, strength, impl, symbols, expansion, input_terms, mp, iters, aux,
                   compiled>>

\* ---- the penalty of one auxiliary variable -------------------------------
\* the pairs, auxiliary indexes and positive strengths the penalty is built for
PenaltyPairs == {<<0, 1>>, <<0, 2>>, <<1, 3>>}

PenaltyIndexes == {4, 5}

PenaltyStrengths == {1, 2, 3}

\* add_and_constraint on an empty polynomial
BaseAddAndConstraint ==
    /\ pc = "start"
    /\ \E index_pair \in PenaltyPairs, new_var \in PenaltyIndexes, s \in PenaltyStrengths :
          /\ strength' = s
          /\ aux' = {<<new_var, index_pair[1], index_pair[2]>>}
          /\ mp' = add_and_constraint(Terms_empty, index_pair, new_var, CoeffNum(s))
    /\ result' = Outcome("add_and_constraint", << >>, NoSample, "ok")
    /\ pc' = "penalty"
    /\ UNCHANGED <<expr, impl, symbols, expansion, input_terms, iters, compiled>>

\* the four emplace_term calls of convert_to_quadratic on an empty polynomial
HppEmplaceTerms ==
    /\ pc = "start"
    /\ \E replacing_pair \in PenaltyPairs, replacing_pair_index \in PenaltyIndexes,
          s \in PenaltyStrengths :
          /\ strength' = s
          /\ aux' = {<<replacing_pair_index, replacing_pair[1], replacing_pair[2]>>}
          /\ mp' = emplace_terms(Terms_empty, replacing_pair, replacing_pair_index, Num(s))
    /\ result' = Outcome("emplace_term", << >>, NoSample, "ok")
    /\ pc' = "penalty"
    /\ UNCHANGED <<expr, impl, symbols, expansion, input_terms, iters, compiled>>

\* ---- operations on polynomials (poly.cpp, poly.hpp) -----------------------
\* the polynomials the operations are applied to: single terms and maps over
\* the products of two variables, with numbers and a placeholder as
\* coefficients
BaseMonos ==
    {Mono(prod, coeff) : prod \in {<<1>>, <<1, 2>>}, coeff \in {CoeffNum(2), CoeffNum(3)}}
        \cup {Mono(Prod_const, CoeffPlaceholder("k"))}

BasePolys ==
    {Poly((<<1>> :> CoeffNum(3))),
     Poly((<<1>> :> CoeffNum(2)) @@ (<<2>> :> CoeffNum(3))),
     Poly((<<1>> :> CoeffPlaceholder("k")) @@ (<<1, 2>> :> CoeffNum(2))
             @@ (Prod_const :> CoeffNum(2)))}

HppSingles ==
    {single_poly(coeff, prd) : prd \in {<<0>>, <<0, 1>>}, coeff \in {Num(2), Num(3)}}
        \cup {single_poly(Placeholder("k"), << >>)}

HppMultis ==
    {multi_poly((<<0>> :> Num(3))),
     multi_poly((<<0>> :> Num(2)) @@ (<<1>> :> Num(3))),
     multi_poly((<<0>> :> Placeholder("k")) @@ (<<0, 1>> :> Num(2)) @@ (<< >> :> Num(2)))}

\* poly::merge_poly(org_poly, poly): org_poly is a Poly
BaseMergePoly ==
    /\ pc = "start"
    /\ \E org_poly \in BasePolys, poly \in BaseMonos \cup BasePolys :
          result' = [Outcome("merge_poly", << >>, NoSample, "ok") EXCEPT
                        !.lhs = org_poly, !.rhs = poly,
                        !.out = Poly(merge_poly(org_poly.terms, poly))]
    /\ pc' = "added"
    /\ UNCHANGED <<expr, strength, impl, symbols, expansion, input_terms, mp, iters, aux,
                   compiled>>

\* operator+(poly, poly) on two polys built apart from each other
HppPolyPlus ==
    /\ pc = "start"
    /\ \E poly_1 \in HppSingles \cup HppMultis, poly_2 \in HppSingles \cup HppMultis :
          result' = [Outcome("operator+", << >>, NoSample, "ok") EXCEPT
                        !.lhs = poly_1, !.rhs = poly_2, !.out = poly_plus(poly_1, poly_2)]
    /\ pc' = "added"
    /\ UNCHANGED <<expr, strength, impl, symbols, expansion, input_terms, mp, iters, aux,
                   compiled>>

\* poly::mul(left, right)
BasePolyMul ==
    /\ pc = "start"
    /\ \E left \in BaseMonos \cup BasePolys, right \in BaseMonos \cup BasePolys :
          result' = [Outcome("poly::mul", << >>, NoSample, "ok") EXCEPT
                        !.lhs = left, !.rhs = right, !.out = poly_mul(left, right)]
    /\ pc' = "multiplied"
    /\ UNCHANGED <<expr, strength, impl, symbols, expansion, input_terms, mp, iters, aux,
                   compiled>>

\* operator*(poly, poly)
HppPolyTimes ==
    /\ pc = "start"
    /\ \E poly_1 \in HppSingles \cup HppMultis, poly_2 \in HppSingles \cup HppMultis :
          result' = [Outcome("operator*", << >>, NoSample, "ok") EXCEPT
                        !.lhs = poly_1, !.rhs = poly_2, !.out = poly_times(poly_1, poly_2)]
    /\ pc' = "multiplied"
    /\ UNCHANGED <<expr, strength, impl, symbols, expansion, input_terms, mp, iters, aux,
                   compiled>>

\* copy() of a polynomial held at address 1; the copy is a new object, held
\* at address 2
BasePolyCopy ==
    /\ pc = "start"
    /\ \E poly \in BaseMonos \cup BasePolys :
          result' = [Outcome("copy", << >>, NoSample, "ok") EXCEPT
                        !.lhs = [at |-> 1, poly |-> poly],
                        !.out = [at |-> 2,
                                 poly |-> IF poly.pt = "MONO" THEN Mono_copy(poly)
                                          ELSE Poly_copy(poly)]]
    /\ pc' = "copied"
    /\ UNCHANGED <<expr, strength, impl, symbols, expansion, input_terms, mp, iters, aux,
                   compiled>>

\* the terms of the copy are changed through the copy: add_term, or erase of
\* one of its terms; the change is seen by every holder of the object changed
BaseCopyChange ==
    /\ pc = "copied"
    /\ result.out.poly.pt = "POLY"
    /\ \E changed \in {Poly(add_term(result.out.poly.terms, <<1>>, CoeffNum(2))),
                        Poly(add_term(result.out.poly.terms, <<3>>, CoeffNum(2)))}
                        \cup {Poly(Terms_erase(result.out.poly.terms, prod)) :
                                 prod \in DOMAIN result.out.poly.terms} :
          result' = [result EXCEPT
                        !.out.poly = changed,
                        !.lhs.poly = IF result.lhs.at = result.out.at THEN changed ELSE @]
    /\ pc' = "copy_changed"
    /\ UNCHANGED <<expr, strength, impl, symbols, expansion, input_terms, mp, iters, aux,
                   compiled>>

\* ---- expansion of a coefficient expression (coeff.h) ---------------------
\* coefficient expressions over the numbers 2 and 3 and the placeholders x
\* and y: the leaves, one operation on leaves, an operation on that and a
\* leaf, and the squares of those
CoeffLeaves == {CoeffNum(2), CoeffNum(3), CoeffPlaceholder("x"), CoeffPlaceholder("y")}

CoeffOps(L, R) == {CoeffMul(l, r) : l \in L, r \in R} \cup {CoeffAdd(l, r) : l \in L, r \in R}

CoeffDepth1 == CoeffOps({CoeffNum(2), CoeffPlaceholder("x")}, CoeffLeaves)

CoeffDepth2 ==
    CoeffOps(CoeffDepth1, {CoeffNum(3), CoeffPlaceholder("y")})
        \cup CoeffOps({CoeffPlaceholder("x")}, CoeffDepth1)

CoeffInputs ==
    CoeffLeaves \cup CoeffDepth1 \cup CoeffDepth2 \cup {CoeffMul(c, c) : c \in CoeffDepth2}

CoeffExpand ==
    /\ pc = "start"
    /\ \E c \in CoeffInputs :
          result' = [Outcome("Coeff::expand", << >>, NoSample, "ok") EXCEPT
                        !.lhs = c, !.out = Coeff_expand(c)]
    /\ pc' = "coefficient"
    /\ UNCHANGED <<expr, strength, impl, symbols, expansion, input_terms, mp, iters, aux,
                   compiled>>

\* ---- merging two products (prod.h) ----------------------------------------
\* the sorted duplicate-free products over three variables (stored indices)
MergeProds ==
    {p \in UNION {[1 .. n -> 1 .. 3] : n \in 0 .. 3} :
        \A i \in 1 .. Len(p) - 1 : p[i] < p[i + 1]}

\* new uint32_t[std::max(this->length, other.length)]
Prod_merge_capacity(this, other) == IF Len(this) > Len(other) THEN Len(this) ELSE Len(other)

\* Prod::merge with its buffer: the loop writes k indices into a buffer of
\* Prod_merge_capacity entries.  A write past the buffer is undefined: the
\* build either keeps the indices (they land in the allocation's slack) or
\* stops with a corrupted heap.
ProdMerge ==
    /\ pc = "start"
    /\ \E this \in MergeProds, other \in MergeProds :
          LET new_sorted_indices == Prod_merge_loop(this, other, 0, 0, -1, << >>)
              capacity == Prod_merge_capacity(this, other)
              k == Len(new_sorted_indices)
              returned == [Outcome("Prod::merge", << >>, NoSample, "ok") EXCEPT
                              !.lhs = this, !.rhs = other,
                              !.out = [capacity |-> capacity, k |-> k,
                                       prod |-> Prod_merge(this, other)]]
              overflow == [Outcome("Prod::merge", << >>, NoSample, "heap-buffer-overflow") EXCEPT
                              !.lhs = this, !.rhs = other,
                              !.out = [capacity |-> capacity, k |-> k, prod |-> << >>]]
          IN result' \in (IF k <= capacity THEN {returned} ELSE {returned, overflow})
    /\ pc' = "merged"
    /\ UNCHANGED <<expr, strength, impl, symbols, expansion, input_terms, mp, iters, aux,
                   compiled>>

Next ==
    \/ ProdMerge
    \/ CoeffExpand
    \/ BasePolyCopy
    \/ BaseCopyChange
    \/ BaseMergePoly
    \/ BasePolyMul
    \/ HppPolyTimes
    \/ HppPolyPlus
    \/ BaseAddAndConstraint
    \/ HppEmplaceTerms
    \/ BqmToQubo
    \/ BqmToIsing
    \/ BaseCompileExpand
    \/ BaseCompileCrash
    \/ MakeQuadraticStep
    \/ BaseCompileFinish
    \/ HppCompile
    \/ HppExpand
    \/ ConvertToQuadraticStep
    \/ HppModel
    \/ BaseToBqm
    \/ BaseToQubo
    \/ BaseEnergy
    \/ BaseDecodeSample
    \/ BaseDecodeSampleWithIndex
    \/ BaseDecodeSamples
    \/ HppToBqm
    \/ HppToQubo
    \/ HppEnergy
    \/ HppDecodeSample
    \/ HppDecodeSamples
    \/ EncoderEncode
    \/ EncoderCopy
    \/ VariablesIndex
    \/ ExprAdd
    \/ ExprEqualTo
    \/ ExprEquals
    \/ BasePow
    \/ HppPow
    \/ BaseExpandSquare
    \/ HppExpandSquare

Spec == Init /\ [][Next]_vars

\* ------------------------------------------------------------------------
\* Reference values
\* ------------------------------------------------------------------------
\* the value of a product of the base pipeline (stored index = index + 1)
RECURSIVE ProdAt(_, _, _)
ProdAt(prod, i, val) == IF i > Len(prod) THEN 1 ELSE val[prod[i] - 1] * ProdAt(prod, i + 1, val)

\* the value of a product of the hpp pipeline
RECURSIVE IndexesAt(_, _, _)
IndexesAt(indexes, i, val) ==
    IF i > Len(indexes) THEN 1 ELSE val[indexes[i]] * IndexesAt(indexes, i + 1, val)

\* a binding of every placeholder of the expression
FullFeed == [l \in PlaceholdersIn(expr) |-> FeedValue(l)]

\* the value of a polynomial of either pipeline at an assignment of indexes
TermsValue(terms, val) ==
    IF impl = "base"
    THEN SumOver([p \in DOMAIN terms |->
                     PHPoly_evaluate(Coeff_expand(terms[p]), FullFeed) * ProdAt(p, 1, val)],
                 DOMAIN terms)
    ELSE SumOver([p \in DOMAIN terms |-> evaluate(terms[p], FullFeed) * IndexesAt(p, 1, val)],
                 DOMAIN terms)

\* the labels of the variables in index order
SymbolNames ==
    IF impl \in {"base", "encoder"} THEN symbols.variables ELSE variables_names(symbols)

\* sum over all terms of max(0, size(term) - 2)
Excess(terms) ==
    SumOver([p \in DOMAIN terms |-> IF Len(p) > 2 THEN Len(p) - 2 ELSE 0], DOMAIN terms)

\* the order reduction has run to its end
Reduced ==
    \/ impl = "base" /\ pc \in {"compiled", "returned"}
    \/ impl = "expand" /\ pc \in {"compiled", "returned", "std::terminate"}

\* the index of a label in the variable table
LabelIndex(l) == (CHOOSE i \in DOMAIN SymbolNames : SymbolNames[i] = l) - 1

\* the value an expression denotes at an assignment: a WithPenalty, SubH or
\* Constraint node denotes what its Hamiltonian denotes
RECURSIVE SemValue(_, _)
SemValue(e, val) ==
    CASE e.type = "Binary" -> val[LabelIndex(e.label)]
      [] e.type = "Spin" -> 2 * val[LabelIndex(e.label)] - 1
      [] e.type = "Num" -> e.value
      [] e.type = "Placeholder" -> FullFeed[e.label]
      [] e.type = "Add" ->
            SumOver([i \in DOMAIN e.children |-> SemValue(e.children[i], val)],
                    DOMAIN e.children)
      [] e.type = "Mul" -> SemValue(e.left, val) * SemValue(e.right, val)
      [] e.type \in {"WithPenalty", "SubH", "Constraint"} -> SemValue(e.hamiltonian, val)

\* the penalty an expression accumulates, by the rule for WithPenalty
RECURSIVE PenaltySem(_, _)
PenaltySem(e, val) ==
    CASE e.type \in {"Binary", "Spin", "Num", "Placeholder"} -> 0
      [] e.type = "Add" ->
            SumOver([i \in DOMAIN e.children |-> PenaltySem(e.children[i], val)],
                    DOMAIN e.children)
      [] e.type = "Mul" -> PenaltySem(e.left, val) + PenaltySem(e.right, val)
      [] e.type \in {"SubH", "Constraint"} -> PenaltySem(e.hamiltonian, val)
      [] e.type = "WithPenalty" ->
            PenaltySem(e.hamiltonian, val) + SemValue(e.penalty, val)
                + PenaltySem(e.penalty, val)

\* the WithPenalty nodes of an expression, each once
RECURSIVE PenaltyNodes(_)
PenaltyNodes(e) ==
    CASE e.type \in {"Binary", "Spin", "Num", "Placeholder"} -> {}
      [] e.type = "Add" -> UNION {PenaltyNodes(e.children[i]) : i \in DOMAIN e.children}
      [] e.type = "Mul" -> PenaltyNodes(e.left) \cup PenaltyNodes(e.right)
      [] e.type \in {"SubH", "Constraint"} -> PenaltyNodes(e.hamiltonian)
      [] e.type = "WithPenalty" ->
            {e} \cup PenaltyNodes(e.hamiltonian) \cup PenaltyNodes(e.penalty)

\* the penalty polynomials of a set of WithPenalty nodes, each counted once
PenaltiesOnce(nodes, val) == SumOver([w \in nodes |-> SemValue(w.penalty, val)], nodes)

\* expand has returned
HasExpansion == impl \in {"base", "compile", "expand"} /\ pc # "SIGSEGV"

\* the main polynomial and the penalty that expand returned for expr
ExpandedMain(val) ==
    CASE impl = "base" -> TermsValue(get_terms(expansion.poly), val)
      [] impl = "compile" -> TermsValue(poly_get_terms(expansion.polynomial), val)
      [] impl = "expand" ->
            TermsValue(poly_get_terms(expansion.polynomial), val)
                - TermsValue(poly_get_terms(expansion.penalty), val)

ExpandedPenalty(val) ==
    IF impl = "base"
    THEN SumOver([i \in DOMAIN expansion.penalties |->
                     TermsValue(get_terms(expansion.penalties[i].poly), val)],
                 DOMAIN expansion.penalties)
    ELSE TermsValue(poly_get_terms(expansion.penalty), val)

\* the binary assignments of the variables, auxiliary ones as products
AllAssignments == Assignments(Len(SymbolNames), aux)

\* the terms of the compiled model
CompiledTerms ==
    IF impl = "base" THEN compiled.compiled_qubo ELSE compiled.quadratic_polynomial

HasModel == pc \in {"compiled", "returned", "std::terminate"}

\* ------------------------------------------------------------------------
\* Claims
\* ------------------------------------------------------------------------
\* C1: after compile, every term of the compiled model's polynomial has a
\* product of size at most 2, whatever the degree of the expression.
C1_ModelIsQuadratic == HasModel => \A p \in DOMAIN CompiledTerms : Len(p) <= 2

\* C2: at every binary assignment in which each auxiliary variable equals
\* the product of the pair it replaced, the reduced polynomial has the value
\* of the input polynomial.
C2_ReductionKeepsValue ==
    Reduced => \A val \in Assignments(Len(SymbolNames), aux) :
                  TermsValue(mp, val) = TermsValue(input_terms, val)

\* C6: every iteration of the order-reduction loop strictly decreases the sum
\* over all terms of max(0, size - 2), so the iterations made never exceed
\* that sum for the input polynomial.
C6_IterationsDecreaseExcess ==
    [][iters' = iters + 1 =>
          (Excess(mp') < Excess(mp) /\ iters' <= Excess(input_terms))]_vars

\* C3: the polynomial compile reduces and turns into the model is the main
\* polynomial plus every accumulated penalty polynomial; WithPenalty(a, b)
\* over binary a and b has exactly the QUBO entries (a,a): 1 and (b,b): 1.
C3_PenaltiesReachModel ==
    /\ HasExpansion =>
          \A val \in AllAssignments :
              TermsValue(input_terms, val)
                  = SemValue(expr, val) + PenaltiesOnce(PenaltyNodes(expr), val)
    /\ (expr = Wp /\ result.op = "to_qubo" /\ result.status = "ok") =>
          result.qubo = [Q |-> (<<"a", "a">> :> 1) @@ (<<"b", "b">> :> 1), offset |-> 0]

\* C4: expanding WithPenalty(e, p, label) returns the polynomial of e as the
\* main polynomial and penalty(e) + polynomial(p) + penalty(p) as the penalty.
C4_WithPenaltyExpansion ==
    (HasExpansion /\ expr.type = "WithPenalty") =>
        \A val \in AllAssignments :
            /\ ExpandedMain(val) = SemValue(expr.hamiltonian, val)
            /\ ExpandedPenalty(val)
                 = PenaltySem(expr.hamiltonian, val) + SemValue(expr.penalty, val)
                     + PenaltySem(expr.penalty, val)

\* C5: in the polynomial handed to the reduction every WithPenalty label has
\* added its penalty polynomial at most once, also for a node reached along
\* several paths.
C5_PenaltyAtMostOnce ==
    (HasExpansion /\ impl \in {"base", "expand"}) =>
        \E once \in SUBSET PenaltyNodes(expr) :
            \A val \in AllAssignments :
                TermsValue(input_terms, val) = SemValue(expr, val) + PenaltiesOnce(once, val)


\* the SubH nodes and the Constraint nodes of an expression
RECURSIVE NodesOfType(_, _)
NodesOfType(e, type) ==
    (IF e.type = type THEN {e} ELSE {})
    \cup CASE e.type \in {"Binary", "Spin", "Num", "Placeholder"} -> {}
           [] e.type = "Add" ->
                 UNION {NodesOfType(e.children[i], type) : i \in DOMAIN e.children}
           [] e.type = "Mul" -> NodesOfType(e.left, type) \cup NodesOfType(e.right, type)
           [] e.type \in {"SubH", "Constraint"} -> NodesOfType(e.hamiltonian, type)
           [] e.type = "WithPenalty" ->
                 NodesOfType(e.hamiltonian, type) \cup NodesOfType(e.penalty, type)

\* the sample of the last call as an assignment of indexes
SampleVal == [i \in 0 .. (Len(SymbolNames) - 1) |-> result.sample[SymbolNames[i + 1]]]

\* the polynomial the compiled model evaluates
ModelTerms == IF impl = "base" THEN mp ELSE compiled.quadratic_polynomial

\* decode_sample has returned a solution, every placeholder being bound
Decoded ==
    /\ result.op = "decode_sample" /\ result.status = "ok"
    /\ result.feed_dict = FullFeed

\* C7: for every SubH label of the compiled expression, decode_sample
\* reports as that label's energy the value at the sample of the SubH's own
\* child expression, and reports as total energy the energy of the whole
\* model; SubH(a+b,'const_1') + SubH(b+c,'const_2') at {a:1, b:1, c:0} gives
\* const_1 = 2, const_2 = 1 and energy = 3.
C7_SubHEnergies ==
    Decoded =>
        /\ \A node \in NodesOfType(expr, "SubH") :
              /\ node.label \in DOMAIN result.subh_values
              /\ result.subh_values[node.label] = SemValue(node.hamiltonian, SampleVal)
        /\ result.energy = TermsValue(ModelTerms, SampleVal)
        /\ (/\ expr = Base_add(SubH(Base_add(Va, Vb), "const_1"),
                               SubH(Base_add(Vb, Vc), "const_2"))
            /\ result.sample = ("a" :> 1) @@ ("b" :> 1) @@ ("c" :> 0))
              => /\ result.subh_values = ("const_1" :> 2) @@ ("const_2" :> 1)
                 /\ result.energy = 3

\* C8: for every Constraint(e, label, predicate) of the compiled expression,
\* decode_sample reports for that label the pair (satisfied, energy) where
\* energy is the value of e at the sample and satisfied = predicate(energy).
C8_ConstraintsDecoded ==
    Decoded =>
        \A node \in NodesOfType(expr, "Constraint") :
            /\ node.label \in DOMAIN result.constraints
            /\ result.constraints[node.label] =
                  <<condition_holds(node.condition, SemValue(node.hamiltonian, SampleVal)),
                    SemValue(node.hamiltonian, SampleVal)>>

\* the label of the i-th variable of a product of the compiled model
NameAt(p, i) == IF impl = "base" THEN SymbolNames[p[i]] ELSE SymbolNames[p[i] + 1]

\* a coefficient of the compiled model cannot be evaluated under the bindings
CoefficientThrows(p, feed_dict) ==
    IF impl = "base" THEN PHPoly_throws(CompiledTerms[p], feed_dict)
    ELSE evaluate_throws(CompiledTerms[p], feed_dict)

\* the value of a coefficient of the compiled model under the bindings
CoefficientAt(p, feed_dict) ==
    IF impl = "base" THEN PHPoly_evaluate(CompiledTerms[p], feed_dict)
    ELSE evaluate(CompiledTerms[p], feed_dict)

\* C9: with every placeholder bound, to_bqm stores each evaluated
\* coefficient as the offset when the term's product is empty, as the linear
\* bias of the variable when the product has size 1 and as the quadratic
\* bias of the pair when it has size 2; if a term has a product of size
\* above 2 it fails with the internal error and returns no BQM.
C9_ToBqmPlacesTerms ==
    (HasModel /\ result.op = "to_bqm" /\ result.feed_dict = FullFeed) =>
        IF \E p \in DOMAIN CompiledTerms : Len(p) > 2
        THEN result.status = "std::runtime_error" /\ result.bqm = NoBqm
        ELSE /\ result.status = "ok"
             /\ result.bqm.offset =
                   (IF << >> \in DOMAIN CompiledTerms THEN CoefficientAt(<< >>, FullFeed)
                    ELSE 0)
             /\ \A p \in DOMAIN CompiledTerms :
                   /\ Len(p) = 1 =>
                         /\ NameAt(p, 1) \in DOMAIN result.bqm.linear
                         /\ result.bqm.linear[NameAt(p, 1)] = CoefficientAt(p, FullFeed)
                   /\ Len(p) = 2 =>
                         /\ <<NameAt(p, 1), NameAt(p, 2)>> \in DOMAIN result.bqm.quadratic
                         /\ result.bqm.quadratic[<<NameAt(p, 1), NameAt(p, 2)>>] =
                               CoefficientAt(p, FullFeed)
             /\ \A k \in DOMAIN result.bqm.quadratic :
                   \E p \in DOMAIN CompiledTerms :
                       Len(p) = 2 /\ k = <<NameAt(p, 1), NameAt(p, 2)>>
             /\ \A l \in DOMAIN result.bqm.linear :
                   \/ \E p \in DOMAIN CompiledTerms : Len(p) = 1 /\ l = NameAt(p, 1)
                   \/ result.bqm.linear[l] = 0

\* a term of size 3 survived into to_bqm, which failed with the internal error
C9_Witness ==
    /\ HasModel /\ result.op = "to_bqm" /\ result.feed_dict = FullFeed
    /\ \E p \in DOMAIN CompiledTerms : Len(p) = 3
    /\ \E p \in DOMAIN CompiledTerms : Len(p) = 1
    /\ result.status = "std::runtime_error"

\* some placeholder of a coefficient of the compiled polynomial has no value
\* in the bindings of the last evaluation
MissingBinding ==
    /\ HasModel /\ result.op \in {"to_bqm", "to_qubo", "energy", "decode_sample"}
    /\ \E p \in DOMAIN CompiledTerms : CoefficientThrows(p, result.feed_dict)

\* C10: an evaluation of the model (to_bqm, to_qubo, energy, decode_sample)
\* under bindings that miss a placeholder of a coefficient of the compiled
\* polynomial fails with the unknown-placeholder exception, which the caller
\* receives, and returns no partial result.
C10_MissingPlaceholderFails ==
    MissingBinding =>
        /\ result.status \in {"std::invalid_argument", "std::out_of_range"}
        /\ pc = "returned"
        /\ [result EXCEPT !.vartype = "BINARY"]
              = Outcome(result.op, result.feed_dict, result.sample, result.status)

\* the payload of a call that returned nothing
NoPayload ==
    /\ result.bqm = NoBqm /\ result.qubo = NoQubo /\ result.energy = 0
    /\ result.subh_values = << >> /\ result.constraints = << >> /\ result.solutions = << >>

\* C11: a malformed sample is rejected by the base model: a label-keyed
\* sample that lacks a label of variables() fails, in energy, decode_sample
\* and decode_samples, with the missing-variable exception
\* (std::invalid_argument), an index-keyed sample that holds an
\* index outside [0, |variables|) fails with the out-of-range exception, and
\* in neither case is a result returned.
C11_MalformedSampleRejected ==
    (impl = "base" /\ result.feed_dict = FullFeed) =>
        /\ (/\ result.op \in {"energy", "decode_sample"}
            /\ \E l \in Range(SymbolNames) : l \notin DOMAIN result.sample)
              => (result.status = "std::invalid_argument" /\ NoPayload)
        /\ (/\ result.op = "decode_sample_with_index"
            /\ \E index \in DOMAIN result.given : index \notin 0 .. (Len(SymbolNames) - 1))
              => (result.status = "std::out_of_range" /\ NoPayload)
        /\ (/\ result.op = "decode_samples"
            /\ \E i \in DOMAIN result.samples :
                  \E l \in Range(SymbolNames) : l \notin DOMAIN result.samples[i])
              => (result.status = "std::invalid_argument" /\ NoPayload)

\* the results decode_sample can end with for the i-th sample of the last
\* decode_samples call
EachDecoded(i) ==
    IF impl = "base" THEN decode_sample("decode_sample", result.feed_dict, result.samples[i])
    ELSE model_decode_sample(result.feed_dict, result.samples[i])

\* C12: on a non-empty sequence of samples (on an empty one no sample is
\* mapped), decode_samples returns a sequence as long as samples whose i-th
\* element is what decode_sample gives for samples[i] (energy,
\* sub-Hamiltonian energies, constraints), in input order, and it fails as
\* decode_sample fails on the first sample that decode_sample rejects.
C12_DecodeSamplesMapsDecodeSample ==
    (HasModel /\ result.op = "decode_samples" /\ result.samples # << >>) =>
        LET failing == {i \in DOMAIN result.samples :
                           \E r \in EachDecoded(i) : r.status # "ok"}
        IN IF failing = {}
           THEN /\ result.status = "ok"
                /\ Len(result.solutions) = Len(result.samples)
                /\ \A i \in DOMAIN result.samples :
                      \E r \in EachDecoded(i) :
                          result.solutions[i] = Solution(r.energy, r.subh_values, r.constraints)
           ELSE LET first == CHOOSE i \in failing : \A j \in failing : i <= j
                IN /\ result.status \in {r.status : r \in EachDecoded(first)}
                   /\ NoPayload

\* the while loop of reduce_order::make_quadratic run to its end (or to
\* MaxIters iterations) from terms and encoder, under every iteration order
\* of the terms: the polynomial, the encoder and the number of iterations
RECURSIVE make_quadratic(_, _, _, _)
make_quadratic(terms, encoder, strength_coeff, n) ==
    IF ~has_higher_degree(terms) \/ n >= MaxIters
    THEN {[mp |-> terms, symbols |-> encoder, iters |-> n]}
    ELSE LET index_pair == find_most_common(terms)
             new_label == create_new_var_label(index_pair)
             new_var == Encoder_encoded(encoder, new_label)
             next_encoder == Encoder_encode(encoder, new_label)
         IN UNION {IF add_and_constraint_throws(index_pair, new_var)
                   THEN {[mp |-> replaced, symbols |-> next_encoder, iters |-> n + 1]}
                   ELSE make_quadratic(add_and_constraint(replaced, index_pair, new_var,
                                                          strength_coeff),
                                       next_encoder, strength_coeff, n + 1)
                   : replaced \in replace_variable(terms, index_pair, new_var)}

\* the inner loop of convert_to_quadratic when find_if may meet the terms
\* that hold both indexes in any order
RECURSIVE replace_loop_orders(_, _, _)
replace_loop_orders(terms, replacing_pair, replacing_pair_index) ==
    LET found == {product \in DOMAIN terms :
                    {replacing_pair[1], replacing_pair[2]} \subseteq Range(product)}
    IN IF found = {} THEN {terms}
       ELSE UNION {
              LET indexes == SelectSeq(it, LAMBDA index :
                                index # replacing_pair[1] /\ index # replacing_pair[2])
                             \o <<replacing_pair_index>>
              IN replace_loop_orders(Terms_insert(Terms_erase(terms, it), indexes, terms[it]),
                                     replacing_pair, replacing_pair_index)
              : it \in found}

\* convert_to_quadratic run to its end (or to MaxIters iterations) under
\* every iteration order of the terms
RECURSIVE convert_to_quadratic(_, _, _, _)
convert_to_quadratic(polynomial, variables, strength_expr, n) ==
    IF replacing_keys(polynomial) = {} \/ n >= MaxIters
    THEN {[mp |-> polynomial, symbols |-> variables, iters |-> n]}
    ELSE LET replacing_pair == find_replacing_pair(polynomial)
             name == replacing_pair_name(variables, replacing_pair)
             replacing_pair_index == variables_index(variables, name)
         IN UNION {convert_to_quadratic(
                       emplace_terms(replaced, replacing_pair, replacing_pair_index,
                                     strength_expr),
                       variables_after_index(variables, name), strength_expr, n + 1)
                   : replaced \in replace_loop_orders(polynomial, replacing_pair,
                                                      replacing_pair_index)}

\* the outputs the reduction of the expanded polynomial can end with
ReductionOutputs ==
    IF impl = "base" THEN make_quadratic(input_terms, symbols, CoeffNum(strength), 0)
    ELSE convert_to_quadratic(input_terms, symbols, Num(strength), 0)

\* C13: compiling the same expression again yields the same reduced
\* polynomial, the same auxiliary variables (indices and labels) and the same
\* number of reducer iterations, whatever order the hash maps that hold the
\* terms are iterated in: the reduction of an expanded polynomial has one
\* possible output.
C13_CompileIsReproducible ==
    (impl \in {"base", "expand"} /\ pc \in {"make_quadratic", "convert_to_quadratic"}
        /\ iters = 0)
        => Cardinality(ReductionOutputs) = 1

\* C14: the auxiliary variable a reducer iteration introduces has an index
\* that no variable of the table held before the iteration, neither a user
\* variable nor an earlier auxiliary variable, whatever the labels of the
\* user's variables are.
C14_AuxiliaryIndexIsFresh ==
    [][(iters' = iters + 1) =>
          /\ aux' # aux
          /\ \A t \in aux' \ aux : t[1] \notin 0 .. (Len(SymbolNames) - 1)]_vars

\* the variable table of a state: what index(label) would return for a label
\* already seen, what name(index) returns, and the list variables() returns
HasTable == impl # "none" /\ pc # "SIGSEGV"

TableIsEncoder == impl \in {"base", "encoder"}

TableLabelsSeen ==
    IF TableIsEncoder THEN DOMAIN symbols.label_to_index ELSE DOMAIN symbols.indexes

TableIndex(l) ==
    IF TableIsEncoder THEN Encoder_index(symbols, l) ELSE variables_index(symbols, l)

TableName(index) ==
    IF TableIsEncoder THEN Encoder_decode(symbols, index) ELSE variables_name(symbols, index)

TableHasName(index) ==
    IF TableIsEncoder THEN index \in DOMAIN symbols.index_to_label
    ELSE index \in DOMAIN symbols.names

\* the labels seen and the indices 0 .. n-1 are in bijection, name(index(l))
\* is l, and variables() lists the labels in index order
TableIsBijection ==
    LET n == Cardinality(TableLabelsSeen)
    IN /\ {TableIndex(l) : l \in TableLabelsSeen} = 0 .. (n - 1)
       /\ \A l \in TableLabelsSeen :
             TableHasName(TableIndex(l)) /\ TableName(TableIndex(l)) = l
       /\ Len(SymbolNames) = n
       /\ \A l \in TableLabelsSeen : SymbolNames[TableIndex(l) + 1] = l

\* C15: after every step that leaves a variable table, the labels the table
\* has seen and the indices 0 .. n-1 are in bijection, name(index(l)) = l for
\* every label seen, variables() lists the labels in index order, and the
\* step has left the index of every label seen before as it was and has given
\* a label seen for the first time the index n, the number of labels seen
\* before it.
C15_VariableTableBijection ==
    [][HasTable' =>
          /\ TableIsBijection'
          /\ HasTable =>
                /\ \A l \in TableLabelsSeen :
                      l \in TableLabelsSeen' /\ TableIndex(l)' = TableIndex(l)
                /\ \A l \in TableLabelsSeen' \ TableLabelsSeen :
                      TableIndex(l)' = Cardinality(TableLabelsSeen)]_vars

\* C16: adding y to an addition node Add(x1, ..., xn) yields an addition node
\* whose child list is x1, ..., xn followed by y: y is appended at the end and
\* the order of the children is kept.
C16_AddAppendsChild ==
    [][(pc = "start" /\ pc' = "built" /\ expr.type = "Add") =>
          /\ expr'.type = "Add"
          /\ \E y \in AddOperands : expr'.children = expr.children \o <<y>>]_vars

\* C17: two SubH nodes, two Constraint nodes or two WithPenalty nodes compare
\* equal only if their labels are equal: a comparison of two such nodes that
\* returned true was given nodes of the same label.
C17_LabelledNodesCompareLabels ==
    (/\ pc = "compared"
     /\ expr.type \in {"SubH", "Constraint", "WithPenalty"}
     /\ result.other.type = expr.type
     /\ result.equal)
        => result.other.label = expr.label

\* the product of k copies of e, multiplied from the left with the
\* multiplication of the interface that built the expression
RECURSIVE KFoldProduct(_, _)
KFoldProduct(e, k) ==
    IF k <= 1 THEN e
    ELSE IF result.op = "pow" THEN Base_mul(KFoldProduct(e, k - 1), e)
    ELSE expression_times(KFoldProduct(e, k - 1), e)

\* C18: pow(e, k) returns e itself for k = 1 and the k-fold product of e for
\* every k >= 1; for every k <= 0 it fails with the invalid-exponent error
\* (std::runtime_error) and returns no expression.
C18_PowOfExpression ==
    pc = "powered" =>
        /\ result.exponent = 1 => (result.status = "ok" /\ result.returned = expr)
        /\ result.exponent >= 1 =>
              (result.status = "ok" /\ result.returned = KFoldProduct(expr, result.exponent))
        /\ result.exponent <= 0 =>
              (result.status = "std::runtime_error" /\ result.returned = [type |-> "none"])

\* the increasing sequence of the elements of a set of numbers
RECURSIVE SortedSeq(_)
SortedSeq(S) ==
    IF S = {} THEN << >>
    ELSE LET least == CHOOSE x \in S : \A y \in S : x <= y
         IN <<least>> \o SortedSeq(S \ {least})

\* the products p * q of two products of the terms, x * x being x
PairwiseProducts(terms) ==
    {SortedSeq(Range(p) \cup Range(q)) : p \in DOMAIN terms, q \in DOMAIN terms}

RECURSIVE SpinHamiltonian(_, _)
SpinHamiltonian(e, spins) ==
    CASE e.type = "Spin" -> spins[e.label]
      [] e.type = "Num" -> e.value
      [] e.type = "Placeholder" -> FullFeed[e.label]
      [] e.type = "Add" ->
            SumOver([i \in DOMAIN e.children |-> SpinHamiltonian(e.children[i], spins)],
                    DOMAIN e.children)
      [] e.type = "Mul" -> SpinHamiltonian(e.left, spins) * SpinHamiltonian(e.right, spins)

\* the expression is built from Spin variables, numbers and placeholders
OverSpins ==
    /\ NodesOfType(expr, "Spin") # {}
    /\ \A type \in {"Binary", "WithPenalty", "SubH", "Constraint"} :
          NodesOfType(expr, type) = {}

\* C20: Spin(x) expands to the terms {x}: 2 and {}: -1, and a SPIN sample is
\* converted by b = (s + 1) / 2 before the evaluation: for a model built from
\* Spin variables, energy(sample, SPIN) is the value of the Hamiltonian at the
\* spin values of the sample.
C20_SpinEnergy ==
    /\ (HasExpansion /\ expr = Spin("a")) =>
          /\ impl = "base" =>
                get_terms(expansion.poly) = (<<1>> :> CoeffNum(2)) @@ (<< >> :> CoeffNum(-1))
          /\ impl # "base" =>
                poly_get_terms(expansion.polynomial) = (<<0>> :> Num(2)) @@ (<< >> :> Num(-1))
    /\ (/\ HasModel /\ OverSpins
        /\ result.op = "energy" /\ result.vartype = "SPIN"
        /\ result.feed_dict = FullFeed) =>
          /\ result.status = "ok"
          /\ result.energy = SpinHamiltonian(expr, result.sample)

\* the energy of a SPIN sample with both spin values has been computed for a
\* product of two Spin variables
C20_Witness ==
    /\ impl = "base" /\ pc = "returned"
    /\ expr = Base_mul(Spin("a"), Spin("b"))
    /\ result.op = "energy" /\ result.vartype = "SPIN" /\ result.status = "ok"
    /\ result.sample = ("a" :> -1) @@ ("b" :> 1)
    /\ result.energy = -1

\* the binary assignment b of a spin assignment s, s = 2b - 1
BinaryOfSpins(spins) == [v \in DOMAIN spins |-> (spins[v] + 1) \div 2]

\* the energy of a QUBO at a binary assignment
qubo_energy(qubo, sample) ==
    qubo.offset
    + SumOver([k \in DOMAIN qubo.Q |-> sample[k[1]] * sample[k[2]] * qubo.Q[k]],
              DOMAIN qubo.Q)

\* C21: vartype conversion round-trips and keeps energies: to_qubo of a spin
\* model followed by to_ising of the result returns the original linear
\* biases, quadratic biases and offset, and each conversion preserves the
\* energy of every assignment under s = 2b - 1.
C21_VartypeRoundTrip ==
    /\ (pc \in {"to_qubo", "to_ising"} /\ result.qubo # NoQubo) =>
          \A spins \in [DOMAIN result.bqm.linear -> {-1, 1}] :
             qubo_energy(result.qubo, BinaryOfSpins(spins))
                = bqm_energy(result.bqm,
                             IF result.vartype = "SPIN" THEN spins ELSE BinaryOfSpins(spins))
    /\ (pc = "to_ising" /\ result.qubo = NoQubo) =>
          \A spins \in [DOMAIN result.bqm.linear -> {-1, 1}] :
             bqm_energy(result.ising, spins)
                = bqm_energy(result.bqm,
                             IF result.vartype = "SPIN" THEN spins ELSE BinaryOfSpins(spins))
    /\ (pc = "to_ising" /\ result.qubo # NoQubo /\ result.vartype = "SPIN") =>
          result.ising = result.bqm

\* a spin model with an interaction has gone to QUBO form and back
C21_Witness ==
    /\ pc = "to_ising" /\ result.vartype = "SPIN"
    /\ result.bqm = [linear |-> ("a" :> -1) @@ ("b" :> 2),
                     quadratic |-> (<<"a", "b">> :> -3), offset |-> 1]
    /\ result.qubo = [Q |-> (<<"a", "a">> :> 4) @@ (<<"b", "b">> :> 10) @@ (<<"a", "b">> :> -12),
                      offset |-> -3]
    /\ result.ising = result.bqm

\* the set of variable indexes of a product of the polynomial being reduced
VarsOfProd(p) == IF impl = "base" THEN Prod_vars(p) ELSE Range(p)

\* the value, with every placeholder bound, of the coefficient of a term
TermCoefficient(terms, p) ==
    IF impl = "base" THEN PHPoly_evaluate(Coeff_expand(terms[p]), FullFeed)
    ELSE evaluate(terms[p], FullFeed)

\* the sum of the coefficients of the terms over a set of variables
CoefficientOfSet(terms, S) ==
    LET ps == {p \in DOMAIN terms : VarsOfProd(p) = S}
    IN SumOver([p \in ps |-> TermCoefficient(terms, p)], ps)

\* the pair and the auxiliary index of the reducer iteration about to run
StepPair == IF impl = "base" THEN find_most_common(mp) ELSE find_replacing_pair(mp)

StepAux ==
    IF impl = "base" THEN Encoder_encoded(symbols, create_new_var_label(StepPair))
    ELSE variables_index(symbols, replacing_pair_name(symbols, StepPair))

\* the products of the example a*b*c + b*c*d after its reduction
ExampleReduced ==
    [S \in {{0, 4}, {3, 4}, {4}, {1, 4}, {2, 4}, {1, 2}} |->
        CASE S \in {{0, 4}, {3, 4}} -> 1
          [] S = {4} -> 6
          [] S \in {{1, 4}, {2, 4}} -> -4
          [] S = {1, 2} -> 2]

\* C22: one reducer iteration with pair (i, j) and auxiliary index a removes
\* every term whose product contains both i and j and inserts, with the same
\* coefficient, the term over (product minus {i, j}) plus {a}; afterwards the
\* only term containing both i and j is the penalty term {i, j}, and the
\* penalty terms {a}: 3s, {i, a}: -2s, {j, a}: -2s, {i, j}: s have been added
\* once.
C22_ReducerIteration ==
    [][(iters' = iters + 1 /\ pc' # "std::runtime_error") =>
          LET i == StepPair[1]
              j == StepPair[2]
              a == StepAux
              hit == {p \in DOMAIN mp : {i, j} \subseteq VarsOfProd(p)}
          IN /\ \A p \in hit :
                   /\ VarsOfProd(p) # {i, j} => p \notin DOMAIN mp'
                   /\ CoefficientOfSet(mp', (VarsOfProd(p) \ {i, j}) \cup {a})
                         = TermCoefficient(mp, p)
                             + (IF VarsOfProd(p) = {i, j} THEN 3 * strength ELSE 0)
             /\ \A p \in DOMAIN mp' :
                   {i, j} \subseteq VarsOfProd(p) =>
                       VarsOfProd(p) = {i, j} /\ TermCoefficient(mp', p) = strength
             /\ CoefficientOfSet(mp', {i, j}) = strength
             /\ CoefficientOfSet(mp', {i, a}) = -2 * strength
             /\ CoefficientOfSet(mp', {j, a}) = -2 * strength
             /\ {i, j} \notin {VarsOfProd(p) : p \in hit} =>
                   CoefficientOfSet(mp', {a}) = 3 * strength]_vars

\* the example of C22: a*b*c + b*c*d with strength 2 reduces to exactly
\* {0,4}: 1, {3,4}: 1, {4}: 6, {1,4}: -4, {2,4}: -4, {1,2}: 2
C22_ExampleReduced ==
    (Reduced /\ expr = Base_add(Base_mul(Base_mul(Va, Vb), Vc), Base_mul(Base_mul(Vb, Vc), Vd))
        /\ strength = 2) =>
        /\ {VarsOfProd(p) : p \in DOMAIN mp} = DOMAIN ExampleReduced
        /\ \A S \in DOMAIN ExampleReduced : CoefficientOfSet(mp, S) = ExampleReduced[S]

\* the number of terms of more than two variables that hold both i and j
CoOccurrences(terms, i, j) ==
    Cardinality({p \in DOMAIN terms : Len(p) > 2 /\ {i, j} \subseteq VarsOfProd(p)})

\* the pairs i < j of variables of the polynomial
PairsOf(terms) ==
    LET vs == UNION {VarsOfProd(p) : p \in DOMAIN terms}
    IN {q \in vs \X vs : q[1] < q[2]}

\* C23: in every reducer iteration the chosen pair has the maximum number of
\* co-occurrences among the terms of product size above 2, and among the
\* pairs with that count it is the lexicographically smallest (i, j), i < j.
C23_MostCommonPairChosen ==
    [][(iters' = iters + 1) =>
          LET i == StepPair[1]
              j == StepPair[2]
          IN /\ i < j
             /\ \E t \in aux' : t[2] = i /\ t[3] = j
             /\ \A q \in PairsOf(mp) :
                   /\ CoOccurrences(mp, q[1], q[2]) <= CoOccurrences(mp, i, j)
                   /\ CoOccurrences(mp, q[1], q[2]) = CoOccurrences(mp, i, j) =>
                         (i < q[1] \/ (i = q[1] /\ j <= q[2]))]_vars

\* an iteration has chosen the pair (0, 1) although another pair, (0, 2),
\* occurs as often
C23_Witness ==
    /\ iters = 1 /\ aux = {<<3, 0, 1>>}
    /\ expr = Base_mul(Base_mul(Va, Vb), Vc)

\* the value of the penalty polynomial at a binary assignment of the indexes
PenaltyValue(val) ==
    IF result.op = "add_and_constraint"
    THEN SumOver([p \in DOMAIN mp |->
                     PHPoly_evaluate(Coeff_expand(mp[p]), << >>) * ProdAt(p, 1, val)],
                 DOMAIN mp)
    ELSE SumOver([p \in DOMAIN mp |-> evaluate(mp[p], << >>) * IndexesAt(p, 1, val)],
                 DOMAIN mp)

\* the variable indexes of a product of the penalty polynomial
PenaltyVars(p) == IF result.op = "add_and_constraint" THEN Prod_vars(p) ELSE Range(p)

\* C24: the penalty added for an auxiliary variable a standing for i * j,
\* {a}: 3s, {i,a}: -2s, {j,a}: -2s, {i,j}: s, is 0 at every binary assignment
\* with a = i * j and at least s at every binary assignment with a # i * j,
\* for positive strength s.
C24_PenaltyOfAuxiliary ==
    pc = "penalty" =>
        \E t \in aux :
            LET a == t[1]
                i == t[2]
                j == t[3]
            IN /\ aux = {t}
               /\ {PenaltyVars(p) : p \in DOMAIN mp} = {{a}, {i, a}, {j, a}, {i, j}}
               /\ \A p \in DOMAIN mp : Len(p) = Cardinality(PenaltyVars(p))
               /\ \A val \in [0 .. a -> {0, 1}] :
                     IF val[a] = val[i] * val[j] THEN PenaltyValue(val) = 0
                     ELSE PenaltyValue(val) >= strength

\* the penalty of the pair (1, 3) and the auxiliary index 5 with strength 3
\* has been built by add_and_constraint
C24_Witness ==
    /\ pc = "penalty" /\ result.op = "add_and_constraint"
    /\ aux = {<<5, 1, 3>>} /\ strength = 3
    /\ mp = (<<6>> :> CoeffNum(9)) @@ (<<2, 6>> :> CoeffNum(-6))
              @@ (<<4, 6>> :> CoeffNum(-6)) @@ (<<2, 4>> :> CoeffNum(3))

\* the binding under which the coefficients of the polynomial operations are
\* compared
PolyFeed == "k" :> 3

\* the operation on polynomials was one of the base pipeline
OnBasePolys == result.op \in {"merge_poly", "poly::mul", "copy"}

\* the terms of an operand or a result of an operation on polynomials
TermsOfPoly(p) == IF OnBasePolys THEN get_terms(p) ELSE poly_to_multi(p).terms

\* the value of the coefficient of a product in a polynomial, 0 when absent
CoefficientIn(p, product) ==
    LET terms == TermsOfPoly(p)
    IN IF product \notin DOMAIN terms THEN 0
       ELSE IF OnBasePolys THEN PHPoly_evaluate(Coeff_expand(terms[product]), PolyFeed)
       ELSE evaluate(terms[product], PolyFeed)

\* C25: polynomial addition folds by product key: for every product, its
\* coefficient in a + b evaluates to the sum of its coefficients in a and in
\* b, an absent product counting as 0; this includes two single-term
\* polynomials with equal products held in different objects.
C25_AdditionFoldsByProduct ==
    pc = "added" =>
        \A product \in (DOMAIN TermsOfPoly(result.lhs)) \cup (DOMAIN TermsOfPoly(result.rhs))
                          \cup (DOMAIN TermsOfPoly(result.out)) :
            CoefficientIn(result.out, product)
                = CoefficientIn(result.lhs, product) + CoefficientIn(result.rhs, product)

\* the value of a polynomial of an operation at a binary assignment of the
\* indexes, under the binding PolyFeed
PolyValue(p, val) ==
    LET terms == TermsOfPoly(p)
    IN SumOver([product \in DOMAIN terms |->
                   CoefficientIn(p, product)
                     * (IF OnBasePolys THEN ProdAt(product, 1, val)
                        ELSE IndexesAt(product, 1, val))],
               DOMAIN terms)

\* the expression (a + b + 2) * (a + b + 2) * e
SquareTimesE ==
    Base_mul(Base_mul(Base_add(Base_add(Va, Vb), Num(2)), Base_add(Base_add(Va, Vb), Num(2))),
             Placeholder("e"))

C27_CopyKeepsTerms ==
    [][/\ pc' = "copied" =>
             get_terms(result'.out.poly) = get_terms(result'.lhs.poly)
       /\ (pc = "copied" /\ pc' = "copy_changed") =>
             /\ result'.lhs = result.lhs
             /\ result'.out # result.out]_vars

\* the recursive evaluation of a coefficient expression: add is +, mul is *
RECURSIVE CoeffValue(_, _)
CoeffValue(c, feed_dict) ==
    CASE c.ct = "NUM" -> c.value
      [] c.ct = "PLACEHOLDER" -> feed_dict[c.label]
      [] c.ct = "MUL" -> CoeffValue(c.left, feed_dict) * CoeffValue(c.right, feed_dict)
      [] c.ct = "ADD" -> CoeffValue(c.left, feed_dict) + CoeffValue(c.right, feed_dict)

\* the bindings of x and y at which the values are compared: enough points to
\* tell two polynomials of degree at most 4 in each placeholder apart
CoeffFeeds == [{"x", "y"} -> -2 .. 2]

\* the expression (2x + 3) * (2x + 3), built as in TEST(COEFF, EXPAND)
TwoXPlus3 == CoeffAdd(CoeffMul(CoeffPlaceholder("x"), CoeffNum(2)), CoeffNum(3))

\* C28: expanding a coefficient expression into a placeholder polynomial
\* preserves its value: for every binding of the placeholders the expanded
\* polynomial evaluates to the number the recursive evaluation of the
\* expression gives; (2x + 3)*(2x + 3) expands to 4x^2 + 12x + 9.
C28_CoefficientExpansionKeepsValue ==
    pc = "coefficient" =>
        /\ \A feed_dict \in CoeffFeeds :
              PHPoly_evaluate(result.out, feed_dict) = CoeffValue(result.lhs, feed_dict)
        /\ result.lhs = CoeffMul(TwoXPlus3, TwoXPlus3) =>
              PHTermsOf(result.out) = (CoeffProd_of("x", 2) :> 4) @@ (CoeffProd_of("x", 1) :> 12)
                                          @@ (CoeffProd_empty :> 9)

\* (2x + 3) * (2x + 3) has been expanded
C28_Witness ==
    /\ pc = "coefficient"
    /\ result.lhs = CoeffMul(TwoXPlus3, TwoXPlus3)
    /\ result.out.pl = "POLY"
    /\ Cardinality(DOMAIN result.out.terms) = 3

\* C29: merging two products never writes more indices than the buffer
\* allocated for the result: for every pair of sorted duplicate-free
\* products the number of indices written by merge is at most the allocated
\* capacity, and the result is the sorted duplicate-free union of both index
\* sets (merging {a} with {b} gives {a, b}).
C29_MergeWithinBuffer ==
    pc = "merged" =>
        /\ result.out.k <= result.out.capacity
        /\ result.status = "ok"
        /\ result.out.prod = SortedSeq(Range(result.lhs) \cup Range(result.rhs))

\* a linked list of an expansion record is well formed: first is null exactly
\* when last is null, and otherwise last is the final node reachable from
\* first
WellFormedList(first, last) ==
    /\ (first = << >>) <=> (last = 0)
    /\ last = Len(first)

\* C30: in every expansion record, after any sequence of add_sub_h,
\* add_penalty, expanded::add and expanded::mul, the list of sub-Hamiltonians
\* and the list of penalties are well formed, also after add_penalty with a
\* penalty expansion that has no sub-Hamiltonians, so that a following
\* add_sub_h or merge never dereferences a null last pointer.
C30_LinkedListsWellFormed ==
    impl = "base" =>
        /\ pc # "SIGSEGV"
        /\ WellFormedList(expansion.sub_hs, expansion.last_sub_hs)
        /\ WellFormedList(expansion.penalties, expansion.last_penalties)
====
